---- MODULE Spec2Model ----
(***************************************************************************)
(* Session / authentication lifecycle of AOJ-cli: the errors of            *)
(* pkg/cerrors, the SessionID value object, the Session entity, the        *)
(* file-backed LocalSessionRepository, the AOJAuthRepository gateway and   *)
(* the LoginUseCase that ties them together.                               *)
(*                                                                         *)
(* Strings are sequences of one-character strings so that trimming, the    *)
(* hexadecimal pattern and the JSON string coercion act on characters.     *)
(* Instants are counted in ticks, TicksPerSecond ticks to the second, so   *)
(* that the truncation to Unix seconds done by the record format shows.    *)
(***************************************************************************)
EXTENDS Integers, Sequences, FiniteSets, TLC

\* ------------------------------------------------------------------------
\* Strings
\* ------------------------------------------------------------------------

\* a byte that is not valid UTF-8, and the Unicode replacement rune U+FFFD
BadByte == "\\xff"
ReplacementRune == "\\ufffd"

EmptyStr == << >>

Rep(c, n) == [i \in 1..n |-> c]

LowerHex == <<"0", "1", "2", "3", "4", "5", "6", "7", "8", "9", "a", "b", "c", "d", "e", "f">>

HexChars == {LowerHex[i] : i \in 1..16} \cup {"A", "B", "C", "D", "E", "F"}

WhiteSpace == {" ", "\t", "\n"}

\* strings.TrimSpace
RECURSIVE TrimLeft(_)
TrimLeft(s) == IF s # << >> /\ Head(s) \in WhiteSpace THEN TrimLeft(Tail(s)) ELSE s

RECURSIVE TrimRight(_)
TrimRight(s) ==
    IF s # << >> /\ s[Len(s)] \in WhiteSpace THEN TrimRight(SubSeq(s, 1, Len(s) - 1)) ELSE s

TrimSpace(s) == TrimRight(TrimLeft(s))

\* encoding/json writes a Go string as a JSON string coerced to valid UTF-8:
\* every invalid byte becomes U+FFFD; decoding the JSON string gives the
\* coerced text back.
JSONString(s) == [i \in 1..Len(s) |-> IF s[i] = BadByte THEN ReplacementRune ELSE s[i]]

\* byte order of the characters used, for the sorted directory listing
CharRank(c) ==
    IF c \in WhiteSpace THEN 0
    ELSE IF \E i \in 1..16 : LowerHex[i] = c THEN 100 + (CHOOSE i \in 1..16 : LowerHex[i] = c)
    ELSE IF c \in {"A", "B", "C", "D", "E", "F"} THEN 50
    ELSE 200

RECURSIVE StrLess(_, _)
StrLess(a, b) ==
    IF a = << >> THEN b # << >>
    ELSE IF b = << >> THEN FALSE
    ELSE IF Head(a) = Head(b) THEN StrLess(Tail(a), Tail(b))
    ELSE CharRank(Head(a)) < CharRank(Head(b))

\* ------------------------------------------------------------------------
\* pkg/cerrors: an error is the chain of its layers, outermost first
\* ------------------------------------------------------------------------

CodeNotFound == "NOT_FOUND"
CodeInvalidInput == "INVALID_INPUT"
CodeUnauthorized == "UNAUTHORIZED"
CodeForbidden == "FORBIDDEN"
CodeConflict == "CONFLICT"
CodeInternalServer == "INTERNAL_SERVER"
CodeServiceUnavailable == "SERVICE_UNAVAILABLE"
CodeTimeout == "TIMEOUT"
CodeNetworkError == "NETWORK_ERROR"

\* nil
NoErr == << >>

\* an error of the os, json or rand packages: a leaf that is no AppError
PlainErr == <<"plain">>

\* one context layer added by errors.Wrap
WrapLayer == "wrap"

ErrorCodes == {CodeNotFound, CodeInvalidInput, CodeUnauthorized, CodeForbidden, CodeConflict,
               CodeInternalServer, CodeServiceUnavailable, CodeTimeout, CodeNetworkError}


NewAppError(code, err) == <<code>> \o err

\* variant of Wrap that formats the cause into a new error and drops the chain
Wrap_DropsCause(err) == IF err = NoErr THEN NoErr ELSE <<WrapLayer>> \o PlainErr

Wrap(err) == IF err = NoErr THEN NoErr ELSE <<WrapLayer>> \o err

\* variant of GetErrorCode that asserts the type of the outermost error only
GetErrorCode_NoUnwrap(err) == IF err # << >> /\ err[1] \in ErrorCodes THEN err[1] ELSE ""

\* errors.As walks the chain and stops at the first *AppError
GetErrorCode(err) ==
    LET hits == {i \in 1..Len(err) : err[i] \in ErrorCodes}
    IN IF hits = {} THEN ""
       ELSE err[CHOOSE i \in hits : \A j \in hits : i <= j]

IsAppError(err, code) == GetErrorCode(err) # "" /\ GetErrorCode(err) = code

\* ------------------------------------------------------------------------
\* internal/domain/model/session_id.go
\* ------------------------------------------------------------------------

MinSessionIDLen == 32
MaxSessionIDLen == 128

RandomBytesLen == 32

\* hex.EncodeToString: two lowercase digits for each byte
HexEncode(bytes) ==
    [i \in 1..(2 * Len(bytes)) |->
        IF i % 2 = 1 THEN LowerHex[(bytes[(i + 1) \div 2] \div 16) + 1]
        ELSE LowerHex[(bytes[i \div 2] % 16) + 1]]

\* what rand.Read can draw
RandomDraws == {Rep(171, RandomBytesLen), Rep(18, RandomBytesLen)}

\* hex.EncodeToString on the draws, computed once
HexOfDraw == [draw \in RandomDraws |-> HexEncode(draw)]

\* ID1 sorts before ID2 in a directory listing
ID1 == HexOfDraw[Rep(18, RandomBytesLen)]
ID2 == HexOfDraw[Rep(171, RandomBytesLen)]

\* the names a session file can have
IDs == {ID1, ID2}

\* sessionIDPattern: ^[a-fA-F0-9]{32,128}$
MatchesSessionIDPattern(id) ==
    /\ Len(id) >= MinSessionIDLen
    /\ Len(id) <= MaxSessionIDLen
    /\ \A i \in 1..Len(id) : id[i] \in HexChars

\* the names of IDs that match the pattern, computed once
WellFormedIDs == {id \in IDs : MatchesSessionIDPattern(id)}

isValidSessionIDFormat(id) ==
    IF id \in IDs THEN id \in WellFormedIDs ELSE MatchesSessionIDPattern(id)

\* the zero SessionID{}
ZeroID == EmptyStr

\* variant of NewSessionID that matches the value as given, untrimmed
NewSessionID_NoTrim(value) ==
    IF value = EmptyStr THEN [id |-> ZeroID, err |-> NewAppError(CodeInvalidInput, NoErr)]
    ELSE IF ~isValidSessionIDFormat(value)
    THEN [id |-> ZeroID, err |-> NewAppError(CodeInvalidInput, NoErr)]
    ELSE [id |-> value, err |-> NoErr]

NewSessionID(value) ==
    IF value = EmptyStr THEN [id |-> ZeroID, err |-> NewAppError(CodeInvalidInput, NoErr)]
    ELSE LET normalized == TrimSpace(value)
         IN IF ~isValidSessionIDFormat(normalized)
            THEN [id |-> ZeroID, err |-> NewAppError(CodeInvalidInput, NoErr)]
            ELSE [id |-> normalized, err |-> NoErr]

SessionIDIsValid(id) == id # EmptyStr /\ isValidSessionIDFormat(id)

\* what rand.Read answered: the bytes drawn, or RandFail (none, and an error)
RandFail == << >>

GenerateSessionID(draw) ==
    IF draw = RandFail THEN [id |-> ZeroID, err |-> Wrap(PlainErr)]
    ELSE [id |-> HexOfDraw[draw], err |-> NoErr]

\* ------------------------------------------------------------------------
\* Time
\* ------------------------------------------------------------------------

TicksPerSecond == 2

\* time.Time.Unix(): whole seconds, the fraction dropped
Unix(t) == t \div TicksPerSecond

\* time.Unix(sec, 0)
TimeUnix(sec) == sec * TicksPerSecond

\* 24*time.Hour
SessionDuration == 24 * 3600 * TicksPerSecond

\* ------------------------------------------------------------------------
\* internal/domain/entity/session.go
\* ------------------------------------------------------------------------

NewSession(id, username, token, expiresAt, now) ==
    [id |-> id, username |-> username, token |-> token,
     expiresAt |-> expiresAt, createdAt |-> now, lastUsed |-> now]

NewSessionWithDuration(id, username, token, duration, now) ==
    [id |-> id, username |-> username, token |-> token,
     expiresAt |-> now + duration, createdAt |-> now, lastUsed |-> now]

\* variant of IsExpired that counts the instant of expiry as expired
IsExpired_AtExpiry(s, now) == now >= s.expiresAt

IsExpired(s, now) == now > s.expiresAt

SessionIsValid(s, now) ==
    /\ SessionIDIsValid(s.id)
    /\ s.username # EmptyStr
    /\ s.token # EmptyStr
    /\ ~IsExpired(s, now)

UpdateLastUsedAt(s, t) == [s EXCEPT !.lastUsed = t]

\* UpdateToken stores the token as it is given and marks the use
UpdateToken(s, token, now) == [s EXCEPT !.token = token, !.lastUsed = now]

\* no session (a nil *entity.Session)
Nil == [nil |-> TRUE]

\* variant of Refresh that extends from the old expiry
Refresh_FromExpiry(s, duration, now) ==
    [s EXCEPT !.expiresAt = s.expiresAt + duration, !.lastUsed = now]

Refresh(s, duration, now) == [s EXCEPT !.expiresAt = now + duration, !.lastUsed = now]

\* variant of RefreshFromNow that extends from the old expiry, expired or not
RefreshFromNow_FromExpiry(s, duration, now) ==
    [s EXCEPT !.expiresAt = s.expiresAt + duration, !.lastUsed = now]

RefreshFromNow(s, duration, now) ==
    [s EXCEPT !.expiresAt = IF s.expiresAt < now THEN now + duration
                            ELSE s.expiresAt + duration,
              !.lastUsed = now]

\* a value of a map[string]interface{}: an int64 or a float64
Int64(v) == [type |-> "int64", val |-> v]
Float64(v) == [type |-> "float64", val |-> v]

ToMap(s) ==
    [id |-> s.id, username |-> s.username, token |-> s.token,
     expires_at |-> Int64(Unix(s.expiresAt)),
     created_at |-> Int64(Unix(s.createdAt)),
     last_used |-> Int64(Unix(s.lastUsed))]

\* the map as encoding/json gives it back: every number a float64, every
\* string coerced to valid UTF-8
JSONMap(data) ==
    [id |-> JSONString(data.id), username |-> JSONString(data.username),
     token |-> JSONString(data.token),
     expires_at |-> Float64(data.expires_at.val),
     created_at |-> Float64(data.created_at.val),
     last_used |-> Float64(data.last_used.val)]

\* FromMap returns the session and the error, or panics: the type assertion
\* .(float64) of a value that is not a float64
FromMap(data) ==
    LET r == NewSessionID(data.id)
    IN IF r.err # NoErr THEN [session |-> Nil, err |-> r.err, panics |-> FALSE]
       ELSE IF \/ data.expires_at.type # "float64"
               \/ data.created_at.type # "float64"
               \/ data.last_used.type # "float64"
       THEN [session |-> Nil, err |-> NoErr, panics |-> TRUE]
       ELSE [session |-> [id |-> r.id, username |-> data.username, token |-> data.token,
                          expiresAt |-> TimeUnix(data.expires_at.val),
                          createdAt |-> TimeUnix(data.created_at.val),
                          lastUsed |-> TimeUnix(data.last_used.val)],
             err |-> NoErr, panics |-> FALSE]

\* ------------------------------------------------------------------------
\* The files under configDir
\* ------------------------------------------------------------------------

\* permission bits of a file mode
Perm0666 == {"ur", "uw", "gr", "gw", "or", "ow"}
Perm0600 == {"ur", "uw"}

\* no such file
NoFile == [exists |-> FALSE]

\* the bytes of a file that was truncated and not, or not wholly, written
Partial == [partial |-> TRUE]

RegularFile(content, mode) == [exists |-> TRUE, content |-> content, mode |-> mode]

\* the names of IDs that are valid UTF-8, which encoding/json writes as they
\* are, computed once
CleanIDs == {id \in IDs : JSONString(id) = id}

\* SessionData as json.Encoder writes it and json.Decoder reads it back
EncodeSessionData(session) ==
    [id |-> IF session.id \in CleanIDs THEN session.id ELSE JSONString(session.id),
     username |-> JSONString(session.username),
     token |-> JSONString(session.token),
     expires_at |-> Unix(session.expiresAt),
     created_at |-> Unix(session.createdAt),
     last_used |-> Unix(session.lastUsed)]

\* ------------------------------------------------------------------------
\* internal/infrastructure/repository/local_session_repository.go
\*
\* A store st is [ns, files, cur]: whether configDir/sessions exists, the
\* file of each name in it, and the file configDir/current_session.
\* Every operation takes the fault that the operating system answers to one
\* of its calls ("none": every call succeeds) and returns the store it
\* leaves together with its results.
\* ------------------------------------------------------------------------

\* os.MkdirAll(sessionsDir, 0755)
ensureConfigDir(st) == [st EXCEPT !.ns = TRUE]

SaveFaults == {"none", "mkdir", "create", "write", "chmod"}

Save(st, session, fault, umask) ==
    IF fault = "mkdir" THEN [st |-> st, err |-> Wrap(PlainErr)]
    ELSE LET st1 == ensureConfigDir(st)
         IN \* the path of the zero id is the sessions directory itself
            IF session.id \notin DOMAIN st.files \/ fault = "create"
            THEN [st |-> st1, err |-> Wrap(PlainErr)]
            ELSE LET old == st1.files[session.id]
                     \* os.Create: O_CREATE|O_TRUNC, mode 0666 less the umask for a new file
                     mode == IF old.exists THEN old.mode ELSE Perm0666 \ umask
                 IN IF fault = "write"
                    THEN [st |-> [st1 EXCEPT !.files[session.id] = RegularFile(Partial, mode)],
                          err |-> Wrap(PlainErr)]
                    ELSE LET data == EncodeSessionData(session)
                         IN IF fault = "chmod"
                            \* the failure of os.Chmod is logged and Save returns nil
                            THEN [st |-> [st1 EXCEPT !.files[session.id] = RegularFile(data, mode)],
                                  err |-> NoErr]
                            ELSE [st |-> [st1 EXCEPT !.files[session.id] = RegularFile(data, Perm0600)],
                                  err |-> NoErr]

dataToSession(data, now) ==
    LET r == NewSessionID(data.id)
    IN IF r.err # NoErr THEN [session |-> Nil, err |-> r.err]
       ELSE [session |-> UpdateLastUsedAt(
                             NewSession(r.id, data.username, data.token, TimeUnix(data.expires_at), now),
                             TimeUnix(data.last_used)),
             err |-> NoErr]

GetFaults == {"none", "open"}

\* variant of GetByID without the os.Stat probe: a missing file fails in os.Open
GetByID_NoStatProbe(st, id, fault, now) ==
    IF id \notin DOMAIN st.files \/ ~st.files[id].exists
    THEN [session |-> Nil, err |-> Wrap(PlainErr)]
    ELSE IF fault = "open" THEN [session |-> Nil, err |-> Wrap(PlainErr)]
    ELSE IF st.files[id].content = Partial THEN [session |-> Nil, err |-> Wrap(PlainErr)]
    ELSE LET r == dataToSession(st.files[id].content, now)
         IN IF r.err # NoErr THEN [session |-> Nil, err |-> Wrap(r.err)]
            ELSE r

GetByID(st, id, fault, now) ==
    IF id \notin DOMAIN st.files \/ ~st.files[id].exists
    THEN [session |-> Nil, err |-> NewAppError(CodeNotFound, NoErr)]
    ELSE IF fault = "open" THEN [session |-> Nil, err |-> Wrap(PlainErr)]
    ELSE IF st.files[id].content = Partial THEN [session |-> Nil, err |-> Wrap(PlainErr)]
    ELSE LET r == dataToSession(st.files[id].content, now)
         IN IF r.err # NoErr THEN [session |-> Nil, err |-> Wrap(r.err)]
            ELSE r

GetCurrentFaults == {"none", "read", "open"}

GetCurrent(st, fault, now) ==
    IF ~st.cur.exists THEN [session |-> Nil, err |-> NewAppError(CodeNotFound, NoErr)]
    ELSE IF fault = "read" THEN [session |-> Nil, err |-> Wrap(PlainErr)]
    ELSE LET r == NewSessionID(st.cur.content)
         IN IF r.err # NoErr THEN [session |-> Nil, err |-> Wrap(r.err)]
            ELSE GetByID(st, r.id, fault, now)

DeleteFaults == {"none", "remove"}

\* variant of Delete that also drops the pointer when it names the id
Delete_ClearsPointer(st, id, fault) ==
    IF fault = "remove" /\ st.files[id].exists
    THEN [st |-> st, err |-> Wrap(PlainErr)]
    ELSE [st |-> [st EXCEPT !.files[id] = NoFile,
                            !.cur = IF st.cur.exists /\ st.cur.content = id THEN NoFile ELSE @],
          err |-> NoErr]

\* variant of Delete without the os.IsNotExist exemption
Delete_AbsentIsError(st, id, fault) ==
    IF fault = "remove" \/ ~st.files[id].exists
    THEN [st |-> st, err |-> Wrap(PlainErr)]
    ELSE [st |-> [st EXCEPT !.files[id] = NoFile], err |-> NoErr]

Delete(st, id, fault) ==
    IF fault = "remove" /\ st.files[id].exists
    THEN [st |-> st, err |-> Wrap(PlainErr)]
    ELSE [st |-> [st EXCEPT !.files[id] = NoFile], err |-> NoErr]

Exists(st, id, fault) ==
    IF ~st.files[id].exists THEN [ok |-> FALSE, err |-> NoErr]
    ELSE IF fault = "stat" THEN [ok |-> FALSE, err |-> Wrap(PlainErr)]
    ELSE [ok |-> TRUE, err |-> NoErr]

SetCurrentFaults == {"none", "mkdir", "open", "write"}

SetCurrent(st, session, fault) ==
    IF fault = "mkdir" THEN [st |-> st, err |-> Wrap(PlainErr)]
    ELSE LET st1 == ensureConfigDir(st)
         IN \* os.WriteFile: open with O_CREATE|O_TRUNC, then write, then close
            IF fault = "open" THEN [st |-> st1, err |-> Wrap(PlainErr)]
            ELSE IF fault = "write"
            THEN [st |-> [st1 EXCEPT !.cur = [exists |-> TRUE, content |-> EmptyStr]],
                  err |-> Wrap(PlainErr)]
            ELSE [st |-> [st1 EXCEPT !.cur = [exists |-> TRUE, content |-> session.id]],
                  err |-> NoErr]

ClearCurrent(st, fault) ==
    IF fault = "remove" /\ st.cur.exists
    THEN [st |-> st, err |-> Wrap(PlainErr)]
    ELSE [st |-> [st EXCEPT !.cur = NoFile], err |-> NoErr]

\* os.ReadDir: the names of the directory, sorted by filename
RECURSIVE SortedNames(_)
SortedNames(names) ==
    IF names = {} THEN << >>
    ELSE LET first == CHOOSE n \in names : \A m \in names \ {n} : StrLess(n, m)
         IN <<first>> \o SortedNames(names \ {first})

ListFaults == {"none", "readdir"}

\* the loop of List: os.Open fails for the names of unreadable, which is
\* logged and skipped
RECURSIVE loadEntries(_, _, _, _)
loadEntries(st, names, unreadable, now) ==
    IF names = << >> THEN << >>
    ELSE LET id == NewSessionID(Head(names))
             rest == loadEntries(st, Tail(names), unreadable, now)
         IN IF id.err # NoErr THEN rest
            ELSE LET r == GetByID(st, id.id, IF id.id \in unreadable THEN "open" ELSE "none", now)
                 IN IF r.err # NoErr THEN rest ELSE <<r.session>> \o rest

\* variant of List that fails on an entry whose name is no session id
List_FailsOnBadName(st, fault, unreadable, now) ==
    IF ~st.ns THEN [sessions |-> << >>, err |-> NoErr]
    ELSE IF fault = "readdir" THEN [sessions |-> << >>, err |-> Wrap(PlainErr)]
    ELSE IF \E n \in DOMAIN st.files : st.files[n].exists /\ NewSessionID(n).err # NoErr
    THEN [sessions |-> << >>, err |-> Wrap(NewAppError(CodeInvalidInput, NoErr))]
    ELSE [sessions |-> loadEntries(st, SortedNames({n \in DOMAIN st.files : st.files[n].exists}),
                                   unreadable, now),
          err |-> NoErr]

List(st, fault, unreadable, now) ==
    IF ~st.ns THEN [sessions |-> << >>, err |-> NoErr]
    ELSE IF fault = "readdir" THEN [sessions |-> << >>, err |-> Wrap(PlainErr)]
    ELSE [sessions |-> loadEntries(st, SortedNames({n \in DOMAIN st.files : st.files[n].exists}),
                                   unreadable, now),
          err |-> NoErr]

\* variant of GetByUsername that matches on the name alone
GetByUsername_AnyState(st, username, fault, unreadable, now) ==
    LET l == List(st, fault, unreadable, now)
        hits == {i \in 1..Len(l.sessions) : l.sessions[i].username = username}
    IN IF l.err # NoErr THEN [session |-> Nil, err |-> Wrap(l.err)]
       ELSE IF hits = {} THEN [session |-> Nil, err |-> NewAppError(CodeNotFound, NoErr)]
       ELSE [session |-> l.sessions[CHOOSE i \in hits : \A j \in hits : i <= j], err |-> NoErr]

GetByUsername(st, username, fault, unreadable, now) ==
    LET l == List(st, fault, unreadable, now)
        hits == {i \in 1..Len(l.sessions) :
                    l.sessions[i].username = username /\ SessionIsValid(l.sessions[i], now)}
    IN IF l.err # NoErr THEN [session |-> Nil, err |-> Wrap(l.err)]
       ELSE IF hits = {} THEN [session |-> Nil, err |-> NewAppError(CodeNotFound, NoErr)]
       ELSE [session |-> l.sessions[CHOOSE i \in hits : \A j \in hits : i <= j], err |-> NoErr]

\* the loop of DeleteByUsername and DeleteExpired: Delete each session of the
\* list that is selected; os.Remove fails for the ids of failing, which is
\* logged and skipped
RECURSIVE deleteEach(_, _, _, _)
deleteEach(st, sessions, selected, failing) ==
    IF sessions = << >> THEN st
    ELSE LET s == Head(sessions)
         IN IF s.id \in selected
            THEN deleteEach(Delete(st, s.id, IF s.id \in failing THEN "remove" ELSE "none").st,
                            Tail(sessions), selected, failing)
            ELSE deleteEach(st, Tail(sessions), selected, failing)

\* variant of DeleteByUsername that spares the sessions that are still valid
DeleteByUsername_OnlyExpired(st, username, fault, unreadable, failing, now) ==
    LET l == List(st, fault, unreadable, now)
    IN IF l.err # NoErr THEN [st |-> st, err |-> Wrap(l.err)]
       ELSE [st |-> deleteEach(st, l.sessions,
                               {l.sessions[i].id : i \in {j \in 1..Len(l.sessions) :
                                                             /\ l.sessions[j].username = username
                                                             /\ IsExpired(l.sessions[j], now)}},
                               failing),
             err |-> NoErr]

DeleteByUsername(st, username, fault, unreadable, failing, now) ==
    LET l == List(st, fault, unreadable, now)
    IN IF l.err # NoErr THEN [st |-> st, err |-> Wrap(l.err)]
       ELSE [st |-> deleteEach(st, l.sessions,
                               {l.sessions[i].id : i \in {j \in 1..Len(l.sessions) :
                                                             l.sessions[j].username = username}},
                               failing),
             err |-> NoErr]

\* variant of DeleteExpired that forgets the IsExpired test
DeleteExpired_DeletesAll(st, fault, unreadable, failing, now) ==
    LET l == List(st, fault, unreadable, now)
    IN IF l.err # NoErr THEN [st |-> st, err |-> Wrap(l.err)]
       ELSE [st |-> deleteEach(st, l.sessions, {l.sessions[i].id : i \in 1..Len(l.sessions)}, failing),
             err |-> NoErr]

DeleteExpired(st, fault, unreadable, failing, now) ==
    LET l == List(st, fault, unreadable, now)
    IN IF l.err # NoErr THEN [st |-> st, err |-> Wrap(l.err)]
       ELSE [st |-> deleteEach(st, l.sessions,
                               {l.sessions[i].id : i \in {j \in 1..Len(l.sessions) :
                                                             IsExpired(l.sessions[j], now)}},
                               failing),
             err |-> NoErr]

\* variant of IsValid that propagates the NotFound of GetByID
StoreIsValid_PropagatesNotFound(st, id, fault, now) ==
    LET r == GetByID(st, id, fault, now)
    IN IF r.err # NoErr THEN [ok |-> FALSE, err |-> r.err]
       ELSE [ok |-> SessionIsValid(r.session, now), err |-> NoErr]

StoreIsValid(st, id, fault, now) ==
    LET r == GetByID(st, id, fault, now)
    IN IF r.err # NoErr
       THEN IF IsAppError(r.err, CodeNotFound) THEN [ok |-> FALSE, err |-> NoErr]
            ELSE [ok |-> FALSE, err |-> r.err]
       ELSE [ok |-> SessionIsValid(r.session, now), err |-> NoErr]

\* ------------------------------------------------------------------------
\* internal/infrastructure/repository/aoj_auth_repository.go
\*
\* A remote outcome is what the judge service and the transport answer to
\* one request: [transport, status, body, draw].
\* ------------------------------------------------------------------------

StatusOK == 200
StatusNoContent == 204
StatusBadRequest == 400
StatusUnauthorized == 401
StatusInternalServerError == 500

\* a response body that is not a JSON document
Malformed == [malformed |-> TRUE]

parseLoginResponse(remote, now) ==
    IF remote.body = Malformed THEN [session |-> Nil, err |-> Wrap(PlainErr)]
    ELSE LET g == GenerateSessionID(remote.draw)
         IN IF g.err # NoErr THEN [session |-> Nil, err |-> Wrap(g.err)]
            ELSE [session |-> NewSessionWithDuration(g.id, JSONString(remote.body.id),
                                                     JSONString(remote.body.token),
                                                     SessionDuration, now),
                  err |-> NoErr]

\* variant of Login without the case of status 500
Login_NoServerErrorCase(username, password, remote, now) ==
    IF ~remote.transport
    THEN [session |-> Nil, err |-> NewAppError(CodeNetworkError, PlainErr)]
    ELSE IF remote.status = StatusOK THEN parseLoginResponse(remote, now)
    ELSE IF remote.status = StatusUnauthorized
    THEN [session |-> Nil, err |-> NewAppError(CodeUnauthorized, NoErr)]
    ELSE IF remote.status = StatusBadRequest
    THEN [session |-> Nil, err |-> NewAppError(CodeInvalidInput, NoErr)]
    ELSE [session |-> Nil, err |-> NewAppError(CodeInternalServer, NoErr)]

\* json.Marshal of two strings and http.NewRequestWithContext of the fixed
\* URL baseURL + "/session" do not fail
Login(username, password, remote, now) ==
    IF ~remote.transport
    THEN [session |-> Nil, err |-> NewAppError(CodeNetworkError, PlainErr)]
    ELSE IF remote.status = StatusOK THEN parseLoginResponse(remote, now)
    ELSE IF remote.status = StatusUnauthorized
    THEN [session |-> Nil, err |-> NewAppError(CodeUnauthorized, NoErr)]
    ELSE IF remote.status = StatusBadRequest
    THEN [session |-> Nil, err |-> NewAppError(CodeInvalidInput, NoErr)]
    ELSE IF remote.status = StatusInternalServerError
    THEN [session |-> Nil, err |-> NewAppError(CodeServiceUnavailable, NoErr)]
    ELSE [session |-> Nil, err |-> NewAppError(CodeInternalServer, NoErr)]

aojBaseURL ==
    <<"h", "t", "t", "p", "s", ":", "/", "/", "j", "u", "d", "g", "e", "a", "p", "i", ".",
      "u", "-", "a", "i", "z", "u", ".", "a", "c", ".", "j", "p">>

\* the ASCII control characters among the characters used
CtlBytes == {"\t", "\n"}

\* http.NewRequestWithContext: url.Parse rejects a URL with a control
\* character in it
NewRequest(method, url) ==
    IF \E i \in 1..Len(url) : url[i] \in CtlBytes
    THEN [req |-> Nil, err |-> PlainErr]
    ELSE [req |-> [method |-> method, url |-> url], err |-> NoErr]

\* variant of ValidateSession that answers false when the transport fails
ValidateSession_SilentFalse(session, probe, now) ==
    IF IsExpired(session, now) THEN [ok |-> FALSE, err |-> NoErr, requests |-> << >>]
    ELSE LET q == NewRequest("GET", aojBaseURL \o <<"/", "u", "s", "e", "r", "/">> \o session.username)
         IN IF q.err # NoErr THEN [ok |-> FALSE, err |-> Wrap(q.err), requests |-> << >>]
            ELSE IF ~probe.transport
            THEN [ok |-> FALSE, err |-> NoErr, requests |-> <<q.req>>]
            ELSE [ok |-> probe.status = StatusOK, err |-> NoErr, requests |-> <<q.req>>]

\* ValidateSession returns its answer and error and the requests it handed
\* to httpClient.Do; probe is what the transport and the service answer
ValidateSession(session, probe, now) ==
    IF IsExpired(session, now) THEN [ok |-> FALSE, err |-> NoErr, requests |-> << >>]
    ELSE LET q == NewRequest("GET", aojBaseURL \o <<"/", "u", "s", "e", "r", "/">> \o session.username)
         IN IF q.err # NoErr THEN [ok |-> FALSE, err |-> Wrap(q.err), requests |-> << >>]
            ELSE IF ~probe.transport
            THEN [ok |-> FALSE, err |-> NewAppError(CodeNetworkError, PlainErr),
                  requests |-> <<q.req>>]
            ELSE [ok |-> probe.status = StatusOK, err |-> NoErr, requests |-> <<q.req>>]

\* variant of Logout that surfaces a response that is neither 200 nor 204
Logout_SurfacesStatus(session, probe) ==
    LET q == NewRequest("DELETE", aojBaseURL \o <<"/", "s", "e", "s", "s", "i", "o", "n">>)
    IN IF q.err # NoErr THEN [err |-> Wrap(q.err), input |-> session, requests |-> << >>]
       ELSE IF ~probe.transport
       THEN [err |-> NewAppError(CodeNetworkError, PlainErr), input |-> session,
             requests |-> <<q.req>>]
       ELSE IF probe.status \notin {StatusOK, StatusNoContent}
       THEN [err |-> NewAppError(CodeInternalServer, NoErr), input |-> session,
             requests |-> <<q.req>>]
       ELSE [err |-> NoErr, input |-> session, requests |-> <<q.req>>]

\* Logout returns its error, the session it was handed as it leaves it and
\* the requests it handed to httpClient.Do; a response that is neither 200
\* nor 204 is logged only
Logout(session, probe) ==
    LET q == NewRequest("DELETE", aojBaseURL \o <<"/", "s", "e", "s", "s", "i", "o", "n">>)
    IN IF q.err # NoErr THEN [err |-> Wrap(q.err), input |-> session, requests |-> << >>]
       ELSE IF ~probe.transport
       THEN [err |-> NewAppError(CodeNetworkError, PlainErr), input |-> session,
             requests |-> <<q.req>>]
       ELSE [err |-> NoErr, input |-> session, requests |-> <<q.req>>]

\* variant of RefreshSession that renews the session under its old id
RefreshSession_KeepsID(session, probe, draw, now) ==
    LET v == ValidateSession(session, probe, now)
    IN IF v.err # NoErr
       THEN [session |-> Nil, err |-> Wrap(v.err), input |-> session, requests |-> v.requests]
       ELSE IF ~v.ok
       THEN [session |-> Nil, err |-> NewAppError(CodeUnauthorized, NoErr), input |-> session,
             requests |-> v.requests]
       ELSE LET g == GenerateSessionID(draw)
            IN IF g.err # NoErr
               THEN [session |-> Nil, err |-> Wrap(g.err), input |-> session,
                     requests |-> v.requests]
               ELSE [session |-> NewSessionWithDuration(session.id, session.username,
                                                        session.token, SessionDuration, now),
                     err |-> NoErr, input |-> session, requests |-> v.requests]

\* RefreshSession returns the new session and its error, the session it was
\* handed as it leaves it and the requests of its ValidateSession; draw is
\* what rand.Read answers
RefreshSession(session, probe, draw, now) ==
    LET v == ValidateSession(session, probe, now)
    IN IF v.err # NoErr
       THEN [session |-> Nil, err |-> Wrap(v.err), input |-> session, requests |-> v.requests]
       ELSE IF ~v.ok
       THEN [session |-> Nil, err |-> NewAppError(CodeUnauthorized, NoErr), input |-> session,
             requests |-> v.requests]
       ELSE LET g == GenerateSessionID(draw)
            IN IF g.err # NoErr
               THEN [session |-> Nil, err |-> Wrap(g.err), input |-> session,
                     requests |-> v.requests]
               ELSE [session |-> NewSessionWithDuration(g.id, session.username, session.token,
                                                        SessionDuration, now),
                     err |-> NoErr, input |-> session, requests |-> v.requests]

\* ------------------------------------------------------------------------
\* internal/usecase/login_usecase.go
\* ------------------------------------------------------------------------

\* variant of validateRequest that forgets the password
validateRequest_NoPasswordCheck(request) ==
    IF TrimSpace(request.username) = EmptyStr THEN NewAppError(CodeInvalidInput, NoErr)
    ELSE NoErr

validateRequest(request) ==
    IF TrimSpace(request.username) = EmptyStr THEN NewAppError(CodeInvalidInput, NoErr)
    ELSE IF TrimSpace(request.password) = EmptyStr THEN NewAppError(CodeInvalidInput, NoErr)
    ELSE NoErr

\* no response (a nil *LoginResponse)
NoResponse == [none |-> TRUE]

\* one collaborator call: which, on what (the username or the session id)
\* and the error it returned
Call(name, arg, err) == [call |-> name, arg |-> arg, err |-> err]

\* variant of Execute that goes on to SetCurrent although Save failed
Execute_SetCurrentAfterFailedSave(st, request, env, now) ==
    LET v == validateRequest(request)
    IN IF v # NoErr
       THEN [st |-> st, resp |-> NoResponse, err |-> v, session |-> Nil, calls |-> << >>]
       ELSE LET l == Login(request.username, request.password, env.remote, now)
                c1 == <<Call("Login", request.username, l.err)>>
            IN IF l.err # NoErr
               THEN [st |-> st, resp |-> NoResponse, err |-> Wrap(l.err), session |-> Nil,
                     calls |-> c1]
               ELSE LET sv == Save(st, l.session, env.save, env.umask)
                        c2 == c1 \o <<Call("Save", l.session.id, sv.err)>>
                        sc == SetCurrent(sv.st, l.session, env.setCurrent)
                        c3 == c2 \o <<Call("SetCurrent", l.session.id, sc.err)>>
                    IN IF sv.err # NoErr \/ sc.err # NoErr
                       THEN [st |-> sc.st, resp |-> NoResponse,
                             err |-> Wrap(IF sv.err # NoErr THEN sv.err ELSE sc.err),
                             session |-> l.session, calls |-> c3]
                       ELSE [st |-> sc.st,
                             resp |-> [Success |-> TRUE, Username |-> l.session.username,
                                       SessionID |-> l.session.id],
                             err |-> NoErr, session |-> l.session, calls |-> c3]

\* variant of Execute that answers with the name of the request
Execute_RespondsRequestName(st, request, env, now) ==
    LET v == validateRequest(request)
    IN IF v # NoErr
       THEN [st |-> st, resp |-> NoResponse, err |-> v, session |-> Nil, calls |-> << >>]
       ELSE LET l == Login(request.username, request.password, env.remote, now)
                c1 == <<Call("Login", request.username, l.err)>>
            IN IF l.err # NoErr
               THEN [st |-> st, resp |-> NoResponse, err |-> Wrap(l.err), session |-> Nil,
                     calls |-> c1]
               ELSE LET sv == Save(st, l.session, env.save, env.umask)
                        c2 == c1 \o <<Call("Save", l.session.id, sv.err)>>
                    IN IF sv.err # NoErr
                       THEN [st |-> sv.st, resp |-> NoResponse, err |-> Wrap(sv.err),
                             session |-> l.session, calls |-> c2]
                       ELSE LET sc == SetCurrent(sv.st, l.session, env.setCurrent)
                                c3 == c2 \o <<Call("SetCurrent", l.session.id, sc.err)>>
                            IN IF sc.err # NoErr
                               THEN [st |-> sc.st, resp |-> NoResponse, err |-> Wrap(sc.err),
                                     session |-> l.session, calls |-> c3]
                               ELSE [st |-> sc.st,
                                     resp |-> [Success |-> TRUE, Username |-> request.username,
                                               SessionID |-> l.session.id],
                                     err |-> NoErr, session |-> l.session, calls |-> c3]

\* Execute returns the response and error of the use case, the store it
\* leaves, the session the gateway returned and the collaborator calls it
\* made, in order.  env holds what the environment answers to each call.
Execute(st, request, env, now) ==
    LET v == validateRequest(request)
    IN IF v # NoErr
       THEN [st |-> st, resp |-> NoResponse, err |-> v, session |-> Nil, calls |-> << >>]
       ELSE LET l == Login(request.username, request.password, env.remote, now)
                c1 == <<Call("Login", request.username, l.err)>>
            IN IF l.err # NoErr
               THEN [st |-> st, resp |-> NoResponse, err |-> Wrap(l.err), session |-> Nil,
                     calls |-> c1]
               ELSE LET sv == Save(st, l.session, env.save, env.umask)
                        c2 == c1 \o <<Call("Save", l.session.id, sv.err)>>
                    IN IF sv.err # NoErr
                       THEN [st |-> sv.st, resp |-> NoResponse, err |-> Wrap(sv.err),
                             session |-> l.session, calls |-> c2]
                       ELSE LET sc == SetCurrent(sv.st, l.session, env.setCurrent)
                                c3 == c2 \o <<Call("SetCurrent", l.session.id, sc.err)>>
                            IN IF sc.err # NoErr
                               THEN [st |-> sc.st, resp |-> NoResponse, err |-> Wrap(sc.err),
                                     session |-> l.session, calls |-> c3]
                               ELSE [st |-> sc.st,
                                     resp |-> [Success |-> TRUE, Username |-> l.session.username,
                                               SessionID |-> l.session.id],
                                     err |-> NoErr, session |-> l.session, calls |-> c3]

\* ------------------------------------------------------------------------
\* internal/infrastructure/repository/aoj_submission_repository.go and
\* internal/usecase/submit_usecase.go
\* ------------------------------------------------------------------------

StatusCreated == 201

\* Submit returns its error; remote is what the transport and the service
\* answer: [transport, status, body]
Submit(remote) ==
    IF ~remote.transport THEN NewAppError(CodeNetworkError, PlainErr)
    ELSE IF remote.status \in {StatusOK, StatusCreated}
    THEN IF remote.body = Malformed THEN Wrap(PlainErr) ELSE NoErr
    ELSE IF remote.status = StatusUnauthorized THEN NewAppError(CodeUnauthorized, NoErr)
    ELSE IF remote.status = StatusBadRequest THEN NewAppError(CodeInvalidInput, NoErr)
    ELSE IF remote.status = StatusInternalServerError
    THEN NewAppError(CodeServiceUnavailable, NoErr)
    ELSE NewAppError(CodeInternalServer, NoErr)

\* determineProblemID of an explicit problem id: one that NewProblemID
\* accepts ("ok") or rejects ("invalid"); without one os.Getwd fails ("getwd")
determineProblemID(problem) ==
    IF problem = "invalid" THEN NewAppError(CodeInvalidInput, NoErr)
    ELSE IF problem = "getwd" THEN Wrap(PlainErr)
    ELSE NoErr

\* Execute of SubmitUseCase returns its error, whether it returned a
\* submission, the session GetCurrent returned and the collaborator calls it
\* made, in order.  env holds what the environment answers: to the problem
\* id, to os.ReadFile of the source file, to GetCurrent and to Submit.
SubmitExecute(st, env, now) ==
    LET p == determineProblemID(env.problem)
    IN IF p # NoErr
       THEN [err |-> p, submitted |-> FALSE, session |-> Nil, calls |-> << >>]
       ELSE IF env.read = "fail"
       THEN [err |-> Wrap(PlainErr), submitted |-> FALSE, session |-> Nil, calls |-> << >>]
       ELSE LET c == GetCurrent(st, env.current, now)
                c1 == <<Call("GetCurrent", Nil, c.err)>>
            IN IF c.err # NoErr
               THEN [err |-> Wrap(c.err), submitted |-> FALSE, session |-> Nil, calls |-> c1]
               ELSE IF c.session = Nil
               THEN [err |-> NewAppError(CodeUnauthorized, NoErr), submitted |-> FALSE,
                     session |-> Nil, calls |-> c1]
               ELSE IF IsExpired(c.session, now)
               THEN [err |-> NewAppError(CodeUnauthorized, NoErr), submitted |-> FALSE,
                     session |-> c.session, calls |-> c1]
               \* GenerateSubmissionID does not fail
               ELSE LET sb == Submit(env.remote)
                        c2 == c1 \o <<Call("Submit", Nil, sb)>>
                    IN IF sb # NoErr
                       THEN [err |-> Wrap(sb), submitted |-> FALSE, session |-> c.session,
                             calls |-> c2]
                       ELSE [err |-> NoErr, submitted |-> TRUE, session |-> c.session,
                             calls |-> c2]

\* ------------------------------------------------------------------------
\* pkg/logger and the records the login command writes through it
\* ------------------------------------------------------------------------

\* a literal of the source is one symbol of a text: no input occurs in it
Literal(msg) == <<msg>>

\* the decimal digits of a status code
RECURSIVE Itoa(_)
Itoa(n) == IF n < 10 THEN <<LowerHex[n + 1]>> ELSE Itoa(n \div 10) \o <<LowerHex[(n % 10) + 1]>>

LogLevels == <<"DEBUG", "INFO", "WARN", "ERROR">>

LevelRank(level) == CHOOSE i \in 1..Len(LogLevels) : LogLevels[i] = level

\* main sets the global logger to LevelInfo before the repositories are built
LoggerLevel == "INFO"

Attr(key, value) == [key |-> key, value |-> value]

Record(level, msg, attrs) == [level |-> level, msg |-> msg, attrs |-> attrs]

\* the handler drops the records below its level
RECURSIVE Handle(_, _)
Handle(records, level) ==
    IF records = << >> THEN << >>
    ELSE IF LevelRank(Head(records).level) >= LevelRank(level)
    THEN <<Head(records)>> \o Handle(Tail(records), level)
    ELSE Handle(Tail(records), level)

MaskedString(id) ==
    IF Len(id) <= 8 THEN Rep("*", Len(id))
    ELSE SubSeq(id, 1, 4) \o Rep("*", Len(id) - 8) \o SubSeq(id, Len(id) - 3, Len(id))

\* MaskedString of the identifiers of the model
MaskedOf == [id \in IDs \cup {ZeroID} |-> MaskedString(id)]

\* the directory GetConfigDir returns: the home directory joined with .aoj-cli
ConfigDir == <<"/", "h">> \o <<"/">> \o Literal(".aoj-cli")

getSessionsDir(configDir) == configDir \o <<"/">> \o Literal("sessions")

\* filepath.Join drops an empty element
getSessionFilePath(configDir, id) ==
    IF id = EmptyStr THEN getSessionsDir(configDir)
    ELSE getSessionsDir(configDir) \o <<"/">> \o id

getCurrentSessionFilePath(configDir) == configDir \o <<"/">> \o Literal("current_session")

\* the text of the *PathError of a failed file operation: op, path, cause
PathErrorText(op, path) == Literal(op) \o <<" ">> \o path \o <<":", " ">> \o Literal("errno")

\* the text of Wrap(err, msg) and of an AppError with a cause: msg, then the cause
WrapText(text, msg) == Literal(msg) \o <<":", " ">> \o text

\* the records of Save and the text of the error it returns
SaveLog(st, session, fault, configDir) ==
    LET path == getSessionFilePath(configDir, session.id)
        saving == Record("DEBUG", "saving session",
                         <<Attr("session_id", MaskedOf[session.id])>>)
        saved == Record("DEBUG", "session saved successfully",
                        <<Attr("session_id", MaskedOf[session.id]), Attr("file", path)>>)
    IN IF fault = "mkdir"
       THEN [records |-> <<saving>>,
             text |-> WrapText(PathErrorText("mkdir", getSessionsDir(configDir)),
                               "failed to ensure config directory")]
       ELSE IF session.id \notin DOMAIN st.files \/ fault = "create"
       THEN [records |-> <<saving>>,
             text |-> WrapText(PathErrorText("open", path), "failed to create session file")]
       ELSE IF fault = "write"
       THEN [records |-> <<saving>>,
             text |-> WrapText(PathErrorText("write", path), "failed to encode session data")]
       ELSE IF fault = "chmod"
       THEN [records |-> <<saving,
                           Record("WARN", "failed to set session file permissions",
                                  <<Attr("error", PathErrorText("chmod", path))>>),
                           saved>>,
             text |-> EmptyStr]
       ELSE [records |-> <<saving, saved>>, text |-> EmptyStr]

\* the records of SetCurrent and the text of the error it returns
SetCurrentLog(session, fault, configDir) ==
    LET setting == Record("DEBUG", "setting current session",
                          <<Attr("session_id", MaskedOf[session.id])>>)
        set == Record("DEBUG", "current session set successfully",
                      <<Attr("session_id", MaskedOf[session.id])>>)
    IN IF fault = "mkdir"
       THEN [records |-> <<setting>>,
             text |-> WrapText(PathErrorText("mkdir", getSessionsDir(configDir)),
                               "failed to ensure config directory")]
       ELSE IF fault = "open"
       THEN [records |-> <<setting>>,
             text |-> WrapText(PathErrorText("open", getCurrentSessionFilePath(configDir)),
                               "failed to write current session file")]
       ELSE IF fault = "write"
       THEN [records |-> <<setting>>,
             text |-> WrapText(PathErrorText("write", getCurrentSessionFilePath(configDir)),
                               "failed to write current session file")]
       ELSE [records |-> <<setting, set>>, text |-> EmptyStr]

\* the records of Login and the text of the error it returns; l is what
\* Login returns for the same answer
LoginLog(username, remote, l) ==
    LET attempting == Record("INFO", "attempting AOJ login", <<Attr("username", username)>>)
    IN IF ~remote.transport
       THEN LET text == Literal("Post") \o <<" ">> \o aojBaseURL \o Literal("/session")
                          \o <<":", " ">> \o Literal("dial")
            IN [records |-> <<attempting,
                              Record("ERROR", "HTTP request failed", <<Attr("error", text)>>)>>,
                text |-> WrapText(text, "failed to connect to AOJ")]
       ELSE IF remote.status = StatusOK
       THEN IF l.err # NoErr
            THEN [records |-> <<attempting>>,
                  text |-> IF remote.body = Malformed
                           THEN WrapText(Literal("EOF"), "failed to decode login response")
                           ELSE WrapText(Literal("rand"), "failed to generate session ID")]
            ELSE [records |-> <<attempting,
                                Record("INFO", "login successful",
                                       <<Attr("username", l.session.username),
                                         Attr("session_id", MaskedOf[l.session.id])>>)>>,
                  text |-> EmptyStr]
       ELSE IF remote.status = StatusUnauthorized
       THEN [records |-> <<attempting,
                           Record("WARN", "authentication failed",
                                  <<Attr("username", username)>>)>>,
             text |-> Literal("invalid username or password")]
       ELSE IF remote.status = StatusBadRequest
       THEN [records |-> <<attempting>>, text |-> Literal("invalid login request format")]
       ELSE IF remote.status = StatusInternalServerError
       THEN [records |-> <<attempting>>, text |-> Literal("AOJ server error")]
       ELSE [records |-> <<attempting,
                           Record("ERROR", "unexpected response status",
                                  <<Attr("status", Itoa(remote.status))>>)>>,
             text |-> Literal("unexpected response from AOJ")]

\* the records one Execute of the login use case hands to its loggers, in order
ExecuteLog(st, request, env, now, configDir) ==
    LET executing == Record("INFO", "executing login usecase",
                            <<Attr("username", request.username)>>)
    IN IF validateRequest(request) # NoErr
       THEN <<executing,
              Record("WARN", "invalid login request",
                     <<Attr("error", Literal("invalid login request"))>>)>>
       ELSE LET l == Login(request.username, request.password, env.remote, now)
                ll == LoginLog(request.username, env.remote, l)
            IN IF l.err # NoErr
               THEN <<executing>> \o ll.records
                    \o <<Record("ERROR", "authentication failed",
                                <<Attr("username", request.username),
                                  Attr("error", ll.text)>>)>>
               ELSE LET sv == Save(st, l.session, env.save, env.umask)
                        sl == SaveLog(st, l.session, env.save, configDir)
                        masked == Attr("session_id", MaskedOf[l.session.id])
                    IN IF sv.err # NoErr
                       THEN <<executing>> \o ll.records \o sl.records
                            \o <<Record("ERROR", "failed to save session",
                                        <<masked, Attr("error", sl.text)>>)>>
                       ELSE LET sc == SetCurrent(sv.st, l.session, env.setCurrent)
                                cl == SetCurrentLog(l.session, env.setCurrent, configDir)
                            IN IF sc.err # NoErr
                               THEN <<executing>> \o ll.records \o sl.records \o cl.records
                                    \o <<Record("ERROR", "failed to set current session",
                                                <<masked, Attr("error", cl.text)>>)>>
                               ELSE <<executing>> \o ll.records \o sl.records \o cl.records
                                    \o <<Record("INFO", "login successful",
                                                <<Attr("username", request.username),
                                                  masked>>)>>

\* ------------------------------------------------------------------------
\* Inputs and bounds
\* ------------------------------------------------------------------------

\* the instant the model starts at, in the middle of a second
StartTime == 7

\* the clock stops MaxDrift ticks after StartTime
MaxDrift == 1

MaxNow == StartTime + MaxDrift

Alice == <<"a", "l">>
Bob == <<"b", "o">>
Blank == <<" ">>
Password == <<"p", "w">>
Token1 == <<"t", "1">>
Token2 == <<"t", "2">>
\* a token with a byte that is not valid UTF-8
TokenRaw == <<"t", BadByte>>

Usernames == {Alice, Bob}

Umask022 == {"gw", "ow"}
Umask077 == {"gr", "gw", "or", "ow"}
Umasks == {Umask022}

\* the sessions a caller hands to the store
Sessions ==
    {[id |-> ID1, username |-> Alice, token |-> Token1,
      expiresAt |-> StartTime, createdAt |-> StartTime - 2, lastUsed |-> StartTime - 1],
     [id |-> ID1, username |-> Bob, token |-> TokenRaw,
      expiresAt |-> StartTime - 3, createdAt |-> StartTime - 5, lastUsed |-> StartTime - 4],
     [id |-> ID2, username |-> Bob, token |-> Token2,
      expiresAt |-> StartTime + SessionDuration, createdAt |-> StartTime, lastUsed |-> StartTime],
     [id |-> ID2, username |-> Alice, token |-> Token1,
      expiresAt |-> StartTime - 3, createdAt |-> StartTime - 5, lastUsed |-> StartTime - 4],
     [id |-> ZeroID, username |-> Alice, token |-> Token1,
      expiresAt |-> StartTime + SessionDuration, createdAt |-> StartTime, lastUsed |-> StartTime]}

Requests ==
    {[username |-> Alice, password |-> Password],
     [username |-> EmptyStr, password |-> Password],
     [username |-> Blank, password |-> Password],
     [username |-> Alice, password |-> EmptyStr]}

Bodies == {[id |-> Alice, token |-> Token1], [id |-> EmptyStr, token |-> TokenRaw]}

\* the remote outcomes that yield no session, and those that yield one
RemoteFailures ==
    {[transport |-> FALSE, status |-> 0, body |-> Malformed, draw |-> RandFail]}
    \cup [transport : {TRUE},
          status : {StatusUnauthorized, StatusBadRequest, StatusInternalServerError, 503},
          body : {Malformed}, draw : {RandFail}]
    \cup [transport : {TRUE}, status : {StatusOK}, body : {Malformed}, draw : {RandFail}]
    \cup [transport : {TRUE}, status : {StatusOK}, body : Bodies, draw : {RandFail}]

RemoteSuccesses == [transport : {TRUE}, status : {StatusOK}, body : Bodies, draw : RandomDraws]

Remotes == RemoteFailures \cup RemoteSuccesses

\* what the environment answers to the calls of one Execute; an answer to a
\* call that Execute cannot reach is fixed to the first of its kind
Envs ==
    [remote : RemoteFailures, save : {"none"}, setCurrent : {"none"}, umask : {Umask022}]
    \cup [remote : RemoteSuccesses, save : {"mkdir", "create"}, setCurrent : {"none"},
          umask : {Umask022}]
    \cup [remote : RemoteSuccesses, save : {"write"}, setCurrent : {"none"}, umask : Umasks]
    \cup [remote : RemoteSuccesses, save : {"none", "chmod"}, setCurrent : SetCurrentFaults,
          umask : Umasks]

DefaultEnv ==
    [remote |-> [transport |-> FALSE, status |-> 0, body |-> Malformed, draw |-> RandFail],
     save |-> "none", setCurrent |-> "none", umask |-> Umask022]

\* what the transport and the service answer to Submit
SubmitRemotes ==
    {[transport |-> FALSE, status |-> 0, body |-> Malformed]}
    \cup [transport : {TRUE},
          status : {StatusUnauthorized, StatusBadRequest, StatusInternalServerError, 503},
          body : {Malformed}]
    \cup [transport : {TRUE}, status : {StatusOK, StatusCreated},
          body : {Malformed, [status |-> "PENDING"]}]

\* what the environment answers to the calls of one Execute of SubmitUseCase;
\* an answer to a call that Execute cannot reach is fixed to the first of
\* its kind
SubmitEnvs ==
    [problem : {"invalid", "getwd"}, read : {"ok"}, current : {"none"},
     remote : {[transport |-> FALSE, status |-> 0, body |-> Malformed]}]
    \cup [problem : {"ok"}, read : {"fail"}, current : {"none"},
          remote : {[transport |-> FALSE, status |-> 0, body |-> Malformed]}]
    \cup [problem : {"ok"}, read : {"ok"}, current : GetCurrentFaults, remote : SubmitRemotes]

\* the strings handed to NewSessionID: a run of one character, or a run
\* with one other character in it, between nothing or white space
IDCores ==
    {Rep(c, n) : c \in {"a", "F", "9", "g"}, n \in {0, 31, 32, 64, 128, 129}}
    \cup {[Rep("a", 40) EXCEPT ![20] = c] : c \in {"-", " ", "B", "\n"}}

IDPads == {<< >>, <<" ">>, <<"\t", "\n">>}

IDInputs == {l \o c \o r : l \in IDPads, c \in IDCores, r \in IDPads}

\* a user name with a line feed in it
CtlName == <<"a", "\n">>

\* the sessions a caller hands to the gateway
GatewaySessions ==
    Sessions
    \cup {[id |-> ID1, username |-> CtlName, token |-> Token1,
           expiresAt |-> StartTime + SessionDuration, createdAt |-> StartTime,
           lastUsed |-> StartTime],
          [id |-> ID2, username |-> CtlName, token |-> Token2,
           expiresAt |-> StartTime - 3, createdAt |-> StartTime - 5, lastUsed |-> StartTime - 4]}

\* the sessions whose methods are called
EntitySessions ==
    GatewaySessions
    \cup {[id |-> ID1, username |-> EmptyStr, token |-> Token1,
           expiresAt |-> StartTime + 1, createdAt |-> StartTime - 1, lastUsed |-> StartTime - 1],
          [id |-> ID2, username |-> Alice, token |-> EmptyStr,
           expiresAt |-> StartTime + 1, createdAt |-> StartTime - 1, lastUsed |-> StartTime - 1]}

\* the tokens handed to UpdateToken
Tokens == {Token1, Token2, EmptyStr}

\* the durations handed to Refresh and RefreshFromNow
Durations == {0 - 1, 0, 1, SessionDuration}

\* the longest run of method calls on one session
MaxEntityOps == 2

\* what the transport and the service answer to the probe of ValidateSession
Probes ==
    {[transport |-> FALSE, status |-> 0]}
    \cup [transport : {TRUE},
          status : {StatusOK, StatusNoContent, StatusUnauthorized, StatusInternalServerError}]

\* the base errors: one that is no AppError, and an AppError of each code
\* with no cause, with a cause that is no AppError, or with an AppError cause
BaseErrors ==
    {PlainErr}
    \cup {NewAppError(c, cause) :
            c \in ErrorCodes,
            cause \in {NoErr, PlainErr} \cup {NewAppError(c2, NoErr) : c2 \in ErrorCodes}}

\* the deepest nesting of Wrap calls
MaxWrapDepth == 3

\* ------------------------------------------------------------------------
\* State
\* ------------------------------------------------------------------------

VARIABLES store, now, last

vars == <<store, now, last>>

\* the record of the last operation: its name, arguments and results
Op(name, arg, err, out, calls) ==
    [op |-> name, arg |-> arg, err |-> err, out |-> out, calls |-> calls]

\* a configDir in which nothing was ever written
EmptyStore == [ns |-> FALSE, files |-> [n \in IDs |-> NoFile], cur |-> NoFile]

\* what the operating system answers for each record during one scan: its
\* file opens and is removed ("none"), fails to open, or fails to be removed
RecordFaults == {"none", "open", "remove"}

RecordFaultMaps == [IDs -> RecordFaults]

\* the answers to one scan of st that can differ in their effect: an answer
\* for a name without a file, and the answers for the records of a directory
\* that cannot be read, are fixed to "none"
ScanFaults(st) ==
    [fault : {"none"},
     rec : {rec \in RecordFaultMaps : \A n \in IDs : ~st.files[n].exists => rec[n] = "none"}]
    \cup (IF st.ns THEN [fault : {"readdir"}, rec : {[n \in IDs |-> "none"]}] ELSE {})

Unreadable(rec) == {n \in IDs : rec[n] = "open"}

Failing(rec) == {n \in IDs : rec[n] = "remove"}

\* the names whose file is in st and no longer in st2
Removed(st, st2) == {n \in IDs : st.files[n].exists /\ ~st2.files[n].exists}

Init ==
    /\ store = EmptyStore
    /\ now = StartTime
    /\ last = Op("init", Nil, NoErr, Nil, << >>)

Tick ==
    /\ now < MaxNow
    /\ now' = now + 1
    /\ last' = Op("Tick", Nil, NoErr, Nil, << >>)
    /\ UNCHANGED store

LoginWorkflow ==
    \E request \in Requests :
    \E env \in IF validateRequest(request) = NoErr THEN Envs ELSE {DefaultEnv} :
       \E r \in {Execute(store, request, env, now)} :
          /\ store' = r.st
          /\ last' = Op("Execute", request, r.err, [resp |-> r.resp, session |-> r.session],
                        r.calls)
          /\ UNCHANGED now

\* one login command together with the records its loggers are handed
LoginLogOp ==
    \E request \in Requests :
    \E env \in IF validateRequest(request) = NoErr THEN Envs ELSE {DefaultEnv} :
       \E r \in {Execute(store, request, env, now)} :
          /\ store' = r.st
          /\ last' = Op("ExecuteLog", request, r.err,
                        [session |-> r.session,
                         records |-> ExecuteLog(store, request, env, now, ConfigDir)],
                        r.calls)
          /\ UNCHANGED now

SaveOp ==
    \E s \in Sessions, f \in SaveFaults, u \in Umasks :
       \E r \in {Save(store, s, f, u)} :
          /\ store' = r.st
          /\ last' = Op("Save", s, r.err, Nil, << >>)
          /\ UNCHANGED now

GetByIDOp ==
    \E id \in IDs, f \in GetFaults :
       \E r \in {GetByID(store, id, f, now)} :
          /\ last' = Op("GetByID", id, r.err, r.session, << >>)
          /\ UNCHANGED <<store, now>>

GetCurrentOp ==
    \E f \in GetCurrentFaults :
       \E r \in {GetCurrent(store, f, now)} :
          /\ last' = Op("GetCurrent", Nil, r.err, r.session, << >>)
          /\ UNCHANGED <<store, now>>

DeleteOp ==
    \E id \in IDs, f \in DeleteFaults :
       \E r \in {Delete(store, id, f)} :
          /\ store' = r.st
          /\ last' = Op("Delete", id, r.err, Removed(store, r.st), << >>)
          /\ UNCHANGED now

DeleteByUsernameOp ==
    \E u \in Usernames, f \in ScanFaults(store) :
       \E r \in {DeleteByUsername(store, u, f.fault, Unreadable(f.rec), Failing(f.rec), now)} :
          /\ store' = r.st
          /\ last' = Op("DeleteByUsername", [username |-> u, fault |-> f.fault, rec |-> f.rec], r.err,
                        Removed(store, r.st), << >>)
          /\ UNCHANGED now

DeleteExpiredOp ==
    \E f \in ScanFaults(store) :
       \E r \in {DeleteExpired(store, f.fault, Unreadable(f.rec), Failing(f.rec), now)} :
          /\ store' = r.st
          /\ last' = Op("DeleteExpired", f, r.err,
                        Removed(store, r.st), << >>)
          /\ UNCHANGED now

GetByUsernameOp ==
    \E u \in Usernames, f \in ScanFaults(store) :
       \E r \in {GetByUsername(store, u, f.fault, Unreadable(f.rec), now)} :
          /\ f.rec \in [IDs -> {"none", "open"}]
          /\ last' = Op("GetByUsername", [username |-> u, fault |-> f.fault, rec |-> f.rec], r.err,
                        r.session, << >>)
          /\ UNCHANGED <<store, now>>

IsValidOp ==
    \E id \in IDs, f \in GetFaults :
       \E r \in {StoreIsValid(store, id, f, now)} :
          /\ last' = Op("IsValid", [id |-> id, fault |-> f], r.err, r.ok, << >>)
          /\ UNCHANGED <<store, now>>

SetCurrentOp ==
    \E s \in Sessions, f \in SetCurrentFaults :
       \E r \in {SetCurrent(store, s, f)} :
          /\ store' = r.st
          /\ last' = Op("SetCurrent", s, r.err, Nil, << >>)
          /\ UNCHANGED now

ClearCurrentOp ==
    \E f \in DeleteFaults :
       \E r \in {ClearCurrent(store, f)} :
          /\ store' = r.st
          /\ last' = Op("ClearCurrent", Nil, r.err, Nil, << >>)
          /\ UNCHANGED now

LoginOp ==
    \E u \in Usernames, remote \in Remotes :
       \E r \in {Login(u, Password, remote, now)} :
          /\ last' = Op("Login", [username |-> u, remote |-> remote], r.err, r.session, << >>)
          /\ UNCHANGED <<store, now>>

ValidateSessionOp ==
    \E s \in GatewaySessions, probe \in Probes :
       \E r \in {ValidateSession(s, probe, now)} :
          /\ last' = Op("ValidateSession", [session |-> s, probe |-> probe], r.err, r.ok,
                        r.requests)
          /\ UNCHANGED <<store, now>>

LogoutOp ==
    \E s \in GatewaySessions, probe \in Probes :
       \E r \in {Logout(s, probe)} :
          /\ last' = Op("Logout", [session |-> s, probe |-> probe], r.err, r.input, r.requests)
          /\ UNCHANGED <<store, now>>

\* variant of RefreshSessionOp that removes the record of the session it renews
RefreshSessionOp_RemovesOld ==
    \E s \in GatewaySessions, probe \in Probes, draw \in RandomDraws \cup {RandFail} :
       \E r \in {RefreshSession(s, probe, draw, now)} :
          /\ last' = Op("RefreshSession", [session |-> s, probe |-> probe, draw |-> draw], r.err,
                        [session |-> r.session, input |-> r.input], r.requests)
          /\ store' = IF r.err = NoErr THEN Delete(store, s.id, "none").st ELSE store
          /\ UNCHANGED now

RefreshSessionOp ==
    \E s \in GatewaySessions, probe \in Probes, draw \in RandomDraws \cup {RandFail} :
       \E r \in {RefreshSession(s, probe, draw, now)} :
          /\ last' = Op("RefreshSession", [session |-> s, probe |-> probe, draw |-> draw], r.err,
                        [session |-> r.session, input |-> r.input], r.requests)
          /\ UNCHANGED <<store, now>>

\* the stores beside which a session is renewed: one in which nothing was
\* written, and those in which a caller saved a session
RefreshStores ==
    {EmptyStore} \cup {Save(EmptyStore, s, "none", Umask022).st : s \in Sessions}

InitRefresh ==
    /\ store \in RefreshStores
    /\ now = StartTime
    /\ last = Op("init", Nil, NoErr, Nil, << >>)

\* the stores a submit command can find: one in which nothing was written,
\* those in which a caller saved a session and made it current, and those a
\* login has left
SubmitStores ==
    {EmptyStore}
    \cup {SetCurrent(Save(EmptyStore, s, "none", Umask022).st, s, "none").st : s \in Sessions}
    \cup {Execute(EmptyStore, [username |-> Alice, password |-> Password],
                  [remote |-> remote, save |-> "none", setCurrent |-> "none",
                   umask |-> Umask022],
                  StartTime).st : remote \in RemoteSuccesses}

InitSubmit ==
    /\ store \in SubmitStores
    /\ now = StartTime
    /\ last = Op("init", Nil, NoErr, Nil, << >>)

SubmitWorkflow ==
    \E env \in SubmitEnvs :
       \E r \in {SubmitExecute(store, env, now)} :
          /\ last' = Op("Submit", env, r.err, [submitted |-> r.submitted, session |-> r.session],
                        r.calls)
          /\ UNCHANGED <<store, now>>

\* ------------------------------------------------------------------------
\* Two processes on one store. Each runs one call of the repository or one
\* login, a system call at a time; the store has no lock. last.out holds
\* the processes (procs), the store they started on (start) and the process
\* that wrote the pointer last (ptrWriter).
\* ------------------------------------------------------------------------

RaceProcs == {1, 2}

FirstStep(prog) ==
    CASE prog = "Execute" -> "Login"
      [] prog = "Save" -> "Save.mkdir"
      [] prog = "SetCurrent" -> "SetCurrent.mkdir"
      [] prog = "Delete" -> "remove"
      [] prog = "GetByID" -> "stat"
      [] prog = "GetCurrent" -> "pointer.stat"

\* a process about to run prog: session is the session it saves or sets, id
\* the name of the record it works on, remote the answer to its Login; fd is
\* its descriptor of the record ("closed", "linked" while the name still
\* leads to the file it opened, "orphan" once that file was removed) and
\* held what an orphan held when it was removed
Proc(prog, session, id, remote) ==
    [prog |-> prog, pc |-> FirstStep(prog), session |-> session, id |-> id, remote |-> remote,
     fd |-> "closed", held |-> Partial, err |-> NoErr, result |-> Nil]

Done(pr, err, result) == [pr EXCEPT !.pc = "done", !.fd = "closed", !.err = err, !.result = result]

RaceRemotes ==
    [transport : {TRUE}, status : {StatusOK}, body : {[id |-> Alice, token |-> Token1]},
     draw : RandomDraws]

\* the sessions a caller saves or makes current
RaceSessions ==
    {NewSession(ID1, Alice, Token2, StartTime + SessionDuration, StartTime),
     NewSession(ID2, Bob, Token2, StartTime + SessionDuration, StartTime)}

RacePrograms ==
    {Proc("Execute", Nil, ZeroID, remote) : remote \in RaceRemotes}
    \cup {Proc(prog, s, s.id, Nil) : prog \in {"Save", "SetCurrent"}, s \in RaceSessions}
    \cup {Proc(prog, Nil, id, Nil) : prog \in {"Delete", "GetByID"}, id \in IDs}
    \cup {Proc("GetCurrent", Nil, ZeroID, Nil)}

\* the stores the two processes start on: one in which nothing was written,
\* and one that holds a record under each id, the first of them current
RaceStores ==
    {EmptyStore,
     SetCurrent(
         Save(Save(EmptyStore,
                   NewSession(ID1, Alice, Token1, StartTime + SessionDuration, StartTime),
                   "none", Umask022).st,
              NewSession(ID2, Bob, Token1, StartTime + SessionDuration, StartTime),
              "none", Umask022).st,
         NewSession(ID1, Alice, Token1, StartTime + SessionDuration, StartTime), "none").st}

InitRace ==
    /\ store \in RaceStores
    /\ now = StartTime
    /\ \E a \in RacePrograms, b \in RacePrograms :
          last = Op("start", Nil, NoErr,
                    [procs |-> <<a, b>>, start |-> store, ptrWriter |-> 0], << >>)

\* process p is at step pc
AtStep(p, pc) == last.op # "init" /\ last.out.procs[p].pc = pc

\* the step name of process p leaves it as pr
Stepped(name, p, pr) == Op(name, p, NoErr, [last.out EXCEPT !.procs[p] = pr], << >>)

\* variant of LoginStep after which Execute sets the pointer without saving
LoginStep_SkipsSave ==
    \E p \in RaceProcs :
       /\ AtStep(p, "Login")
       /\ LET pr == last.out.procs[p]
              l == Login(Alice, Password, pr.remote, now)
          IN last' = Stepped("Login", p,
                         IF l.err # NoErr THEN Done(pr, Wrap(l.err), Nil)
                         ELSE [pr EXCEPT !.session = l.session, !.id = l.session.id,
                                         !.pc = "SetCurrent.mkdir"])
       /\ UNCHANGED <<store, now>>

\* uc.authRepo.Login of Execute
LoginStep ==
    \E p \in RaceProcs :
       /\ AtStep(p, "Login")
       /\ LET pr == last.out.procs[p]
              l == Login(Alice, Password, pr.remote, now)
          IN last' = Stepped("Login", p,
                         IF l.err # NoErr THEN Done(pr, Wrap(l.err), Nil)
                         ELSE [pr EXCEPT !.session = l.session, !.id = l.session.id,
                                         !.pc = "Save.mkdir"])
       /\ UNCHANGED <<store, now>>

\* os.MkdirAll of ensureConfigDir, in Save and in SetCurrent
MkdirStep ==
    \E p \in RaceProcs :
       /\ AtStep(p, "Save.mkdir") \/ AtStep(p, "SetCurrent.mkdir")
       /\ store' = ensureConfigDir(store)
       /\ last' = Stepped("Mkdir", p,
                      [last.out.procs[p] EXCEPT
                          !.pc = IF @ = "Save.mkdir" THEN "Save.create" ELSE "SetCurrent.open"])
       /\ UNCHANGED now

\* os.Create of Save: the file is made, or emptied where it is
CreateStep ==
    \E p \in RaceProcs :
       /\ AtStep(p, "Save.create")
       /\ LET pr == last.out.procs[p]
              old == store.files[pr.id]
              mode == IF old.exists THEN old.mode ELSE Perm0666 \ Umask022
          IN /\ store' = [store EXCEPT !.files[pr.id] = RegularFile(Partial, mode)]
             /\ last' = Stepped("Create", p, [pr EXCEPT !.fd = "linked", !.pc = "Save.write"])
       /\ UNCHANGED now

\* Encode of Save writes the record through the descriptor
WriteStep ==
    \E p \in RaceProcs :
       /\ AtStep(p, "Save.write")
       /\ LET pr == last.out.procs[p]
          IN /\ store' = IF pr.fd = "linked"
                         THEN [store EXCEPT !.files[pr.id].content = EncodeSessionData(pr.session)]
                         ELSE store
             /\ last' = Stepped("Write", p, [pr EXCEPT !.pc = "Save.chmod"])
       /\ UNCHANGED now

\* os.Chmod of Save goes by the name; its failure is logged; the file is
\* closed and Save returns nil
ChmodStep ==
    \E p \in RaceProcs :
       /\ AtStep(p, "Save.chmod")
       /\ LET pr == last.out.procs[p]
          IN /\ store' = IF store.files[pr.id].exists
                         THEN [store EXCEPT !.files[pr.id].mode = Perm0600]
                         ELSE store
             /\ last' = Stepped("Chmod", p,
                            IF pr.prog = "Execute"
                            THEN [pr EXCEPT !.fd = "closed", !.pc = "SetCurrent.mkdir"]
                            ELSE Done(pr, NoErr, Nil))
       /\ UNCHANGED now

\* os.WriteFile of SetCurrent opens the pointer file and empties it
PointerOpenStep ==
    \E p \in RaceProcs :
       /\ AtStep(p, "SetCurrent.open")
       /\ store' = [store EXCEPT !.cur = [exists |-> TRUE, content |-> EmptyStr]]
       /\ last' = Stepped("PointerOpen", p, [last.out.procs[p] EXCEPT !.pc = "SetCurrent.write"])
       /\ UNCHANGED now

\* variant of PointerWriteStep that leaves an id another process wrote
PointerWriteStep_KeepsFirst ==
    \E p \in RaceProcs :
       /\ AtStep(p, "SetCurrent.write")
       /\ LET pr == last.out.procs[p]
          IN /\ store' = IF store.cur.content = EmptyStr
                         THEN [store EXCEPT !.cur = [exists |-> TRUE, content |-> pr.id]]
                         ELSE store
             /\ last' = Op("PointerWrite", p, NoErr,
                           [last.out EXCEPT !.procs[p] = Done(pr, NoErr, Nil), !.ptrWriter = p],
                           << >>)
       /\ UNCHANGED now

\* os.WriteFile of SetCurrent writes the id; SetCurrent returns nil
PointerWriteStep ==
    \E p \in RaceProcs :
       /\ AtStep(p, "SetCurrent.write")
       /\ LET pr == last.out.procs[p]
          IN /\ store' = [store EXCEPT !.cur = [exists |-> TRUE, content |-> pr.id]]
             /\ last' = Op("PointerWrite", p, NoErr,
                           [last.out EXCEPT !.procs[p] = Done(pr, NoErr, Nil), !.ptrWriter = p],
                           << >>)
       /\ UNCHANGED now

\* os.Remove of Delete; a descriptor another process holds of the file keeps
\* the file, which no name leads to any more
RemoveStep ==
    \E p \in RaceProcs :
       /\ AtStep(p, "remove")
       /\ LET pr == last.out.procs[p]
              others == [q \in RaceProcs |->
                            IF q # p /\ last.out.procs[q].fd = "linked"
                                     /\ last.out.procs[q].id = pr.id
                            THEN [last.out.procs[q] EXCEPT
                                     !.fd = "orphan", !.held = store.files[pr.id].content]
                            ELSE last.out.procs[q]]
          IN /\ store' = [store EXCEPT !.files[pr.id] = NoFile]
             /\ last' = Op("Remove", p, NoErr,
                           [last.out EXCEPT !.procs = [others EXCEPT ![p] = Done(pr, NoErr, Nil)]],
                           << >>)
       /\ UNCHANGED now

\* os.Stat of GetByID
StatStep ==
    \E p \in RaceProcs :
       /\ AtStep(p, "stat")
       /\ LET pr == last.out.procs[p]
          IN last' = Stepped("Stat", p,
                         IF ~store.files[pr.id].exists
                         THEN Done(pr, NewAppError(CodeNotFound, NoErr), Nil)
                         ELSE [pr EXCEPT !.pc = "open"])
       /\ UNCHANGED <<store, now>>

\* os.Open of GetByID
OpenStep ==
    \E p \in RaceProcs :
       /\ AtStep(p, "open")
       /\ LET pr == last.out.procs[p]
          IN last' = Stepped("Open", p,
                         IF ~store.files[pr.id].exists THEN Done(pr, Wrap(PlainErr), Nil)
                         ELSE [pr EXCEPT !.fd = "linked", !.pc = "decode"])
       /\ UNCHANGED <<store, now>>

\* Decode and dataToSession of GetByID, on what the file holds by now
DecodeStep ==
    \E p \in RaceProcs :
       /\ AtStep(p, "decode")
       /\ LET pr == last.out.procs[p]
              content == IF pr.fd = "linked" THEN store.files[pr.id].content ELSE pr.held
              r == dataToSession(content, now)
          IN last' = Stepped("Decode", p,
                         IF content = Partial THEN Done(pr, Wrap(PlainErr), Nil)
                         ELSE IF r.err # NoErr THEN Done(pr, Wrap(r.err), Nil)
                         ELSE Done(pr, NoErr, r.session))
       /\ UNCHANGED <<store, now>>

\* os.Stat of GetCurrent
PointerStatStep ==
    \E p \in RaceProcs :
       /\ AtStep(p, "pointer.stat")
       /\ LET pr == last.out.procs[p]
          IN last' = Stepped("PointerStat", p,
                         IF ~store.cur.exists THEN Done(pr, NewAppError(CodeNotFound, NoErr), Nil)
                         ELSE [pr EXCEPT !.pc = "pointer.read"])
       /\ UNCHANGED <<store, now>>

\* os.ReadFile and NewSessionID of GetCurrent, which goes on as GetByID
PointerReadStep ==
    \E p \in RaceProcs :
       /\ AtStep(p, "pointer.read")
       /\ LET pr == last.out.procs[p]
              r == NewSessionID(store.cur.content)
          IN last' = Stepped("PointerRead", p,
                         IF r.err # NoErr THEN Done(pr, Wrap(r.err), Nil)
                         ELSE [pr EXCEPT !.id = r.id, !.pc = "stat"])
       /\ UNCHANGED <<store, now>>

\* names found in the sessions directory that no Save has written: a name
\* that is no session id, and a session id followed by a blank
ForeignName == <<"n", "o", "t", "e", "s">>
PaddedName == ID1 \o <<" ">>

ListNames == IDs \cup {ForeignName, PaddedName}

\* the directories List can find: none, and those holding under each name no
\* file, a record, or a file that does not decode (cut short, or with an id
\* that is no session id)
ListStores ==
    {[ns |-> FALSE, files |-> [n \in ListNames |-> NoFile], cur |-> NoFile]}
    \cup {[ns |-> TRUE, cur |-> NoFile,
           files |-> (ID1 :> a @@ ID2 :> b @@ ForeignName :> c @@ PaddedName :> d)] :
          a \in {NoFile, RegularFile(Partial, Perm0600),
                  RegularFile(EncodeSessionData(
                      NewSession(ID1, Alice, Token1, StartTime + 1, StartTime)), Perm0600)},
          b \in {NoFile,
                  RegularFile(EncodeSessionData(
                      NewSession(ID2, Bob, Token2, StartTime - 3, StartTime - 4)), Perm0600),
                  RegularFile(EncodeSessionData(
                      NewSession(ForeignName, Bob, Token2, StartTime + 1, StartTime)), Perm0600)},
          c \in {NoFile, RegularFile(Partial, Perm0600)},
          d \in {NoFile,
                  RegularFile(EncodeSessionData(
                      NewSession(ID2, Bob, Token1, StartTime + 1, StartTime)), Perm0600)}}

InitList ==
    /\ store \in ListStores
    /\ now = StartTime
    /\ last = Op("init", Nil, NoErr, Nil, << >>)

\* one List; os.Open fails for the records of unreadable
ListOp ==
    \E fault \in IF store.ns THEN ListFaults ELSE {"none"} :
    \E unreadable \in IF store.ns /\ fault = "none"
                       THEN SUBSET {n \in IDs : store.files[n].exists} ELSE {{}} :
       \E r \in {List(store, fault, unreadable, now)} :
          /\ last' = Op("List", [fault |-> fault, unreadable |-> unreadable], r.err,
                        r.sessions, << >>)
          /\ UNCHANGED <<store, now>>

\* a session is made at some instant, then its methods are called: out holds
\* the session as the call left it, the session as it was before the call
\* and the result of the call; calls holds the names of the calls so far
InitSession ==
    /\ store = EmptyStore
    /\ now \in StartTime..MaxNow
    /\ \E s \in EntitySessions :
          last = Op("Session", Nil, NoErr, [session |-> s, before |-> s, result |-> Nil], << >>)

\* a session is at hand for another call
OnSession ==
    /\ last.op \in {"Session", "IsValid", "IsExpired", "Refresh", "RefreshFromNow", "FromMap",
                   "UpdateToken"}
    /\ last.out.session # Nil
    /\ Len(last.calls) < MaxEntityOps

SessionIsValidOp ==
    /\ OnSession
    /\ last' = Op("IsValid", Nil, NoErr,
                  [session |-> last.out.session, before |-> last.out.session,
                   result |-> SessionIsValid(last.out.session, now)],
                  Append(last.calls, "IsValid"))
    /\ UNCHANGED <<store, now>>

IsExpiredOp ==
    /\ OnSession
    /\ last' = Op("IsExpired", Nil, NoErr,
                  [session |-> last.out.session, before |-> last.out.session,
                   result |-> IsExpired(last.out.session, now)],
                  Append(last.calls, "IsExpired"))
    /\ UNCHANGED <<store, now>>

RefreshOp ==
    /\ OnSession
    /\ \E d \in Durations :
          last' = Op("Refresh", d, NoErr,
                     [session |-> Refresh(last.out.session, d, now),
                      before |-> last.out.session, result |-> Nil],
                     Append(last.calls, "Refresh"))
    /\ UNCHANGED <<store, now>>

RefreshFromNowOp ==
    /\ OnSession
    /\ \E d \in Durations :
          last' = Op("RefreshFromNow", d, NoErr,
                     [session |-> RefreshFromNow(last.out.session, d, now),
                      before |-> last.out.session, result |-> Nil],
                     Append(last.calls, "RefreshFromNow"))
    /\ UNCHANGED <<store, now>>

UpdateTokenOp ==
    /\ OnSession
    /\ \E token \in Tokens :
          last' = Op("UpdateToken", token, NoErr,
                     [session |-> UpdateToken(last.out.session, token, now),
                      before |-> last.out.session, result |-> Nil],
                     Append(last.calls, "UpdateToken"))
    /\ UNCHANGED <<store, now>>

\* FromMap of the map ToMap gives, as it is or as encoding/json gives it back
FromMapOp ==
    /\ OnSession
    /\ \E data \in {ToMap(last.out.session), JSONMap(ToMap(last.out.session))} :
       \E r \in {FromMap(data)} :
          last' = Op("FromMap", data, r.err,
                     [session |-> r.session, before |-> last.out.session, result |-> r.panics],
                     Append(last.calls, "FromMap"))
    /\ UNCHANGED <<store, now>>

\* a string is given, then NewSessionID is called on it
InitSessionID ==
    /\ store = EmptyStore
    /\ now = StartTime
    /\ \E value \in IDInputs : last = Op("input", value, NoErr, Nil, << >>)

NewSessionIDOp ==
    /\ last.op = "input"
    /\ \E r \in {NewSessionID(last.arg)} :
          last' = Op("NewSessionID", last.arg, r.err, r.id, << >>)
    /\ UNCHANGED <<store, now>>

\* an error is made, then wrapped again and again: arg is the error made,
\* err the error as wrapped so far, out the number of Wrap calls
InitErrors ==
    /\ store = EmptyStore
    /\ now = StartTime
    /\ \E e \in BaseErrors : last = Op("New", e, e, 0, << >>)

WrapOp ==
    /\ last.op \in {"New", "Wrap"}
    /\ last.out < MaxWrapDepth
    /\ last' = Op("Wrap", last.arg, Wrap(last.err), last.out + 1, << >>)
    /\ UNCHANGED <<store, now>>

\* the store on its own, driven by its callers
Next ==
    \/ Tick
    \/ SaveOp
    \/ GetByIDOp
    \/ GetCurrentOp
    \/ DeleteOp
    \/ DeleteByUsernameOp
    \/ DeleteExpiredOp
    \/ SetCurrentOp
    \/ ClearCurrentOp

Spec == Init /\ [][Next]_vars

\* the records of the store and the operations that scan them
NextScan ==
    \/ Tick
    \/ SaveOp
    \/ DeleteOp
    \/ DeleteByUsernameOp
    \/ DeleteExpiredOp
    \/ GetByUsernameOp
    \/ IsValidOp

SpecScan == Init /\ [][NextScan]_vars

\* the login use case over the store and the gateway
NextLogin ==
    \/ Tick
    \/ LoginWorkflow
    \/ ClearCurrentOp

SpecLogin == Init /\ [][NextLogin]_vars

\* the gateway to the judge service, beside a store whose pointer its
\* callers set
NextGateway ==
    \/ Tick
    \/ LoginOp
    \/ ValidateSessionOp
    \/ RefreshSessionOp
    \/ LogoutOp
    \/ SetCurrentOp

SpecGateway == Init /\ [][NextGateway]_vars

\* the submit use case over the stores it can find, whose records can be
\* deleted under it
NextSubmit ==
    \/ Tick
    \/ DeleteOp
    \/ SubmitWorkflow

SpecSubmit == InitSubmit /\ [][NextSubmit]_vars

\* the Session entity
NextSession ==
    \/ SessionIsValidOp
    \/ IsExpiredOp
    \/ RefreshOp
    \/ RefreshFromNowOp
    \/ UpdateTokenOp
    \/ FromMapOp

SpecSession == InitSession /\ [][NextSession]_vars

\* the SessionID value object
NextSessionID == NewSessionIDOp

SpecSessionID == InitSessionID /\ [][NextSessionID]_vars

\* RefreshSession beside a store that holds the sessions it renews
NextRefresh ==
    \/ Tick
    \/ DeleteOp
    \/ RefreshSessionOp

SpecRefresh == InitRefresh /\ [][NextRefresh]_vars

\* two processes on one store, a system call at a time
NextRace ==
    \/ LoginStep
    \/ MkdirStep
    \/ CreateStep
    \/ WriteStep
    \/ ChmodStep
    \/ PointerOpenStep
    \/ PointerWriteStep
    \/ RemoveStep
    \/ StatStep
    \/ OpenStep
    \/ DecodeStep
    \/ PointerStatStep
    \/ PointerReadStep

SpecRace == InitRace /\ [][NextRace]_vars

\* List over the directories it can find
NextList ==
    \/ Tick
    \/ ListOp

SpecList == InitList /\ [][NextList]_vars

\* the login command and its log
NextLog == LoginLogOp

SpecLog == Init /\ [][NextLog]_vars

\* the errors of pkg/cerrors
NextErrors == WrapOp

SpecErrors == InitErrors /\ [][NextErrors]_vars

\* ------------------------------------------------------------------------
\* Properties of the login use case (SpecLogin)
\* ------------------------------------------------------------------------

CallOrder == <<"Login", "Save", "SetCurrent">>

\* C1: every Execute calls its collaborators at most once each, in the order
\* Login, Save, SetCurrent, and never after a call that failed; SetCurrent is
\* called only for the session whose Save succeeded, whose record is then in
\* the store.
C1_CallsInOrderNoRetry ==
    last.op = "Execute" =>
        /\ Len(last.calls) <= 3
        /\ \A i \in 1..Len(last.calls) : last.calls[i].call = CallOrder[i]
        /\ \A i \in 1..(Len(last.calls) - 1) : last.calls[i].err = NoErr
        /\ Len(last.calls) = 3 =>
              /\ last.calls[3].arg = last.calls[2].arg
              /\ last.calls[3].arg = last.out.session.id
              /\ store.files[last.calls[3].arg].exists
              /\ store.files[last.calls[3].arg].content = EncodeSessionData(last.out.session)

\* a Save failure inside Execute: SetCurrent was not called
C1_Witness ==
    /\ last.op = "Execute"
    /\ Len(last.calls) = 2
    /\ last.calls[2].err # NoErr

\* C2: Execute with an empty username or an empty password fails with
\* InvalidInput, returns no response, calls no collaborator and leaves the
\* store unchanged.
C2_EmptyCredentialsRejected ==
    [][(/\ last'.op = "Execute"
        /\ (last'.arg.username = EmptyStr \/ last'.arg.password = EmptyStr))
       => /\ IsAppError(last'.err, CodeInvalidInput)
          /\ last'.out.resp = NoResponse
          /\ last'.calls = << >>
          /\ store' = store]_vars

\* an Execute with an empty password was rejected
C2_Witness ==
    /\ last.op = "Execute"
    /\ last.arg.username # EmptyStr
    /\ last.arg.password = EmptyStr
    /\ IsAppError(last.err, CodeInvalidInput)

\* C3: when Login returns an error, Execute returns an error with the same
\* error code, Save and SetCurrent are not called and the store is unchanged.
C3_LoginFailureKeepsKind ==
    [][(/\ last'.op = "Execute"
        /\ Len(last'.calls) >= 1
        /\ last'.calls[1].err # NoErr)
       => /\ last'.err # NoErr
          /\ GetErrorCode(last'.err) = GetErrorCode(last'.calls[1].err)
          /\ last'.out.resp = NoResponse
          /\ Len(last'.calls) = 1
          /\ store' = store]_vars

\* the gateway answered Unauthorized and Execute reports Unauthorized
C3_Witness ==
    /\ last.op = "Execute"
    /\ Len(last.calls) = 1
    /\ IsAppError(last.calls[1].err, CodeUnauthorized)
    /\ IsAppError(last.err, CodeUnauthorized)

\* the step is an Execute in which SetCurrent failed after Save succeeded
SetCurrentFailedInExecute ==
    /\ last'.op = "Execute"
    /\ Len(last'.calls) = 3
    /\ last'.calls[3].err # NoErr

\* C4: when SetCurrent fails after Save succeeded, Execute returns an error
\* and no response, the record written by Save stays in the store and the
\* current pointer keeps the value it had before Execute.
C4_FailedSetCurrentKeepsPointer ==
    [][SetCurrentFailedInExecute
       => /\ last'.err # NoErr
          /\ last'.out.resp = NoResponse
          /\ store'.files[last'.out.session.id].exists
          /\ store'.files[last'.out.session.id].content = EncodeSessionData(last'.out.session)
          /\ store'.cur = store.cur]_vars

\* the session GetCurrent resolves in the store, without a read fault
CurrentSession == GetCurrent(store, "none", now)

\* C5: when Execute succeeds, the store holds the record of the session the
\* gateway returned, the pointer names it, GetCurrent returns it and the
\* response carries its username and id.
C5_SuccessfulLoginIsCurrent ==
    (last.op = "Execute" /\ last.err = NoErr) =>
        LET s == last.out.session
        IN /\ s # Nil
           /\ store.files[s.id].exists
           /\ store.files[s.id].content = EncodeSessionData(s)
           /\ store.cur.exists
           /\ store.cur.content = s.id
           /\ CurrentSession.err = NoErr
           /\ CurrentSession.session.id = s.id
           /\ CurrentSession.session.username = s.username
           /\ CurrentSession.session.token = s.token
           /\ last.out.resp = [Success |-> TRUE, Username |-> s.username, SessionID |-> s.id]

\* a successful Execute whose session has another name than the request
C5_Witness ==
    /\ last.op = "Execute"
    /\ last.err = NoErr
    /\ last.out.session.username # last.arg.username
    /\ CurrentSession.err = NoErr

\* ------------------------------------------------------------------------
\* Properties of the session store (Spec)
\* ------------------------------------------------------------------------

\* C6: after a successful Save(S), GetByID(S.id) returns a session with the
\* id, username and token of S.
C6_SaveThenGetByID ==
    (last.op = "Save" /\ last.err = NoErr) =>
        LET r == GetByID(store, last.arg.id, "none", now)
        IN /\ r.err = NoErr
           /\ r.session.id = last.arg.id
           /\ r.session.username = last.arg.username
           /\ r.session.token = last.arg.token

\* C7: whenever Save returns success the mode of the stored record is 0600.
C7_SavedRecordOwnerOnly ==
    (last.op = "Save" /\ last.err = NoErr) =>
        /\ store.files[last.arg.id].exists
        /\ store.files[last.arg.id].mode = Perm0600

\* the session of a SetCurrent has a whole record in st
IsSaved(st, session) ==
    /\ session.id \in DOMAIN st.files
    /\ st.files[session.id].exists
    /\ st.files[session.id].content # Partial

\* C8: after a successful SetCurrent(S) of a saved S, GetCurrent returns the
\* session of id S.id; after ClearCurrent it fails with NotFound; a SetCurrent
\* that fails changes neither (GetCurrent answers for the last successful
\* SetCurrent, and NotFound until the next successful one).
C8_CurrentFollowsLastSuccess ==
    [][/\ (last'.op = "SetCurrent" /\ last'.err = NoErr /\ IsSaved(store', last'.arg))
          => /\ GetCurrent(store', "none", now').err = NoErr
             /\ GetCurrent(store', "none", now').session.id = last'.arg.id
       /\ (last'.op = "ClearCurrent" /\ last'.err = NoErr)
          => IsAppError(GetCurrent(store', "none", now').err, CodeNotFound)
       /\ (last'.op = "SetCurrent" /\ last'.err # NoErr)
          => GetCurrent(store', "none", now') = GetCurrent(store, "none", now)]_vars

DeleteOps == {"Delete", "DeleteByUsername", "DeleteExpired"}

\* C9: Delete, DeleteByUsername and DeleteExpired leave the pointer as it is;
\* when one of them removes the record the pointer names, GetCurrent fails
\* with the NotFound error of a store in which no pointer was ever set.
C9_DeletesLeavePointer ==
    [][last'.op \in DeleteOps
       => /\ store'.cur = store.cur
          /\ (store.cur.exists /\ store.cur.content \in last'.out)
             => /\ IsAppError(GetCurrent(store', "none", now').err, CodeNotFound)
                /\ GetCurrent(store', "none", now') = GetCurrent(EmptyStore, "none", now')]_vars

\* DeleteExpired removed the record the pointer names
C9_Witness ==
    /\ last.op = "DeleteExpired"
    /\ store.cur.exists
    /\ store.cur.content \in last.out

\* C10: GetByID of an id without a record and GetCurrent without a pointer
\* file fail with NotFound, return no session and leave the store unchanged.
C10_AbsentIsNotFound ==
    [][/\ (last'.op = "GetByID" /\ ~store.files[last'.arg].exists)
          => /\ IsAppError(last'.err, CodeNotFound)
             /\ last'.out = Nil
             /\ store' = store
       /\ (last'.op = "GetCurrent" /\ ~store.cur.exists)
          => /\ IsAppError(last'.err, CodeNotFound)
             /\ last'.out = Nil
             /\ store' = store]_vars

\* GetByID of an id without a record answered NotFound, other records present
C10_Witness ==
    /\ last.op = "GetByID"
    /\ ~store.files[last.arg].exists
    /\ \E n \in IDs : store.files[n].exists
    /\ IsAppError(last.err, CodeNotFound)

\* ------------------------------------------------------------------------
\* Properties of the scanning operations (SpecScan)
\* ------------------------------------------------------------------------

\* the file of name n in st holds a whole record
HasRecord(st, n) == st.files[n].exists /\ st.files[n].content # Partial

\* the record of name n in st holds a session that is expired at instant t
RecordExpired(st, n, t) == HasRecord(st, n) /\ t > TimeUnix(st.files[n].content.expires_at)

\* the record of name n in st holds a session of the user
RecordOfUser(st, n, username) == HasRecord(st, n) /\ st.files[n].content.username = username

\* C11: after DeleteExpired returns, every record whose session was expired
\* at call time is gone and every other record is as it was.
C11_DeleteExpiredExact ==
    [][last'.op = "DeleteExpired"
       => \A n \in IDs :
             /\ RecordExpired(store, n, now) => ~store'.files[n].exists
             /\ ~RecordExpired(store, n, now) => store'.files[n] = store.files[n]]_vars

\* C11 as amended: DeleteExpired removes the expired records it can load and
\* remove and no other; when the enumeration fails it returns the error and
\* removes nothing.
C11_DeleteExpiredBestEffort ==
    [][last'.op = "DeleteExpired"
       => /\ (last'.err # NoErr) <=> (last'.arg.fault = "readdir")
          /\ last'.err # NoErr => store' = store
          /\ \A n \in IDs :
                IF /\ RecordExpired(store, n, now)
                   /\ last'.arg.fault = "none"
                   /\ last'.arg.rec[n] = "none"
                THEN ~store'.files[n].exists
                ELSE store'.files[n] = store.files[n]]_vars

\* DeleteExpired removed the expired record of ID2 after the removal of the
\* expired record of ID1, which comes first in the listing, failed
C11_Witness ==
    /\ last.op = "DeleteExpired"
    /\ last.err = NoErr
    /\ last.out = {ID2}
    /\ last.arg.rec[ID1] = "remove"
    /\ RecordExpired(store, ID1, now)

\* C12: DeleteByUsername(name) removes every record of the user name, valid
\* or expired, and leaves every record of another user as it was.
C12_DeleteByUsernameAll ==
    [][last'.op = "DeleteByUsername"
       => \A n \in IDs :
             /\ RecordOfUser(store, n, last'.arg.username) => ~store'.files[n].exists
             /\ ~RecordOfUser(store, n, last'.arg.username) => store'.files[n] = store.files[n]]_vars

\* C12 as amended: DeleteByUsername(name) removes the records of name, valid
\* or expired, that it can load and remove and no other; when the
\* enumeration fails it returns the error and removes nothing.
C12_DeleteByUsernameBestEffort ==
    [][last'.op = "DeleteByUsername"
       => /\ (last'.err # NoErr) <=> (last'.arg.fault = "readdir")
          /\ last'.err # NoErr => store' = store
          /\ \A n \in IDs :
                IF /\ RecordOfUser(store, n, last'.arg.username)
                   /\ last'.arg.fault = "none"
                   /\ last'.arg.rec[n] = "none"
                THEN ~store'.files[n].exists
                ELSE store'.files[n] = store.files[n]]_vars

\* DeleteByUsername removed the two records of a user, of which one was
\* expired and one was not
C12_Witness ==
    /\ last.op = "DeleteByUsername"
    /\ last.err = NoErr
    /\ last.arg.username = Bob
    /\ last.out = IDs
    /\ \A n \in IDs : ~store.files[n].exists

\* C13: DeleteByUsername and DeleteExpired return no error whatever step
\* fails, and a record whose removal fails does not keep the records after
\* it from being removed.
C13_ScanDeletesNeverFail ==
    [][last'.op \in {"DeleteByUsername", "DeleteExpired"}
       => /\ last'.err = NoErr
          /\ \A n \in IDs :
                (/\ IF last'.op = "DeleteExpired" THEN RecordExpired(store, n, now)
                    ELSE RecordOfUser(store, n, last'.arg.username)
                 /\ last'.arg.rec[n] = "none")
                => ~store'.files[n].exists]_vars

\* the record of name n in st holds a session that IsValid() at instant t
RecordValid(st, n, t) ==
    /\ HasRecord(st, n)
    /\ SessionIDIsValid(st.files[n].content.id)
    /\ st.files[n].content.username # EmptyStr
    /\ st.files[n].content.token # EmptyStr
    /\ ~RecordExpired(st, n, t)

\* the out of a read is the session of the record of name n in st
IsSessionOf(out, st, n) ==
    /\ out # Nil
    /\ out.id = n
    /\ out.username = st.files[n].content.username
    /\ out.token = st.files[n].content.token
    /\ out.expiresAt = TimeUnix(st.files[n].content.expires_at)

\* C14: GetByUsername(name) returns a stored session of name that is valid
\* whenever the store holds such a record, and fails with NotFound otherwise.
C14_GetByUsernameValid ==
    last.op = "GetByUsername" =>
        LET hits == {n \in IDs : RecordOfUser(store, n, last.arg.username)
                                    /\ RecordValid(store, n, now)}
        IN IF hits # {}
           THEN /\ last.err = NoErr
                /\ \E n \in hits : IsSessionOf(last.out, store, n)
                /\ SessionIsValid(last.out, now)
           ELSE /\ IsAppError(last.err, CodeNotFound)
                /\ last.out = Nil

\* C14 as amended: when the enumeration succeeds GetByUsername(name) returns
\* a valid session of name among the records it can load, and fails with
\* NotFound when there is none; when the enumeration fails it returns that
\* error, which has no kind, and no session.
C14_GetByUsernameLoadable ==
    last.op = "GetByUsername" =>
        LET hits == {n \in IDs : /\ RecordOfUser(store, n, last.arg.username)
                                 /\ RecordValid(store, n, now)
                                 /\ last.arg.rec[n] = "none"}
        IN IF last.arg.fault = "readdir"
           THEN /\ last.err # NoErr
                /\ GetErrorCode(last.err) = ""
                /\ last.out = Nil
           ELSE IF hits # {}
           THEN /\ last.err = NoErr
                /\ \E n \in hits : IsSessionOf(last.out, store, n)
                /\ SessionIsValid(last.out, now)
                /\ last.out.username = last.arg.username
           ELSE /\ IsAppError(last.err, CodeNotFound)
                /\ last.out = Nil

\* GetByUsername passed over an expired record of the user and returned the
\* valid one after it
C14_Witness ==
    /\ last.op = "GetByUsername"
    /\ last.err = NoErr
    /\ IsSessionOf(last.out, store, ID2)
    /\ RecordOfUser(store, ID1, last.arg.username)
    /\ RecordExpired(store, ID1, now)
    /\ last.arg.rec[ID1] = "none"

\* C15: IsValid(id) returns (false, no error) when id has no record, the
\* IsValid() of the session when the record loads, and an error exactly when
\* the record is there and does not load.
C15_IsValidAbsentIsFalse ==
    last.op = "IsValid" =>
        LET id == last.arg.id
            loads == HasRecord(store, id) /\ last.arg.fault = "none"
        IN /\ ~store.files[id].exists => (last.out = FALSE /\ last.err = NoErr)
           /\ loads => (last.out = RecordValid(store, id, now) /\ last.err = NoErr)
           /\ (store.files[id].exists /\ ~loads)
                 => /\ last.err # NoErr
                    /\ ~IsAppError(last.err, CodeNotFound)
                    /\ last.out = FALSE

\* IsValid answered (false, no error) for a record that is expired
C15_Witness ==
    /\ last.op = "IsValid"
    /\ last.arg.fault = "none"
    /\ RecordExpired(store, last.arg.id, now)
    /\ last.out = FALSE
    /\ last.err = NoErr

\* ------------------------------------------------------------------------
\* Further properties of the session store (Spec)
\* ------------------------------------------------------------------------

\* C16: Delete of an id without a record and ClearCurrent without a pointer
\* succeed and leave the store as it is; after a successful Delete(id) the
\* record of id does not exist, GetByID(id) fails with NotFound and all
\* other records and the pointer are as they were.
C16_DeleteAndClearIdempotent ==
    [][/\ (last'.op = "Delete" /\ ~store.files[last'.arg].exists)
          => (last'.err = NoErr /\ store' = store)
       /\ (last'.op = "Delete" /\ last'.err = NoErr)
          => /\ Exists(store', last'.arg, "none") = [ok |-> FALSE, err |-> NoErr]
             /\ IsAppError(GetByID(store', last'.arg, "none", now').err, CodeNotFound)
             /\ \A n \in IDs \ {last'.arg} : store'.files[n] = store.files[n]
             /\ store'.cur = store.cur
       /\ (last'.op = "ClearCurrent" /\ ~store.cur.exists)
          => (last'.err = NoErr /\ store' = store)]_vars

\* a Delete of an id without a record succeeded beside another record
C16_Witness ==
    /\ last.op = "Delete"
    /\ last.err = NoErr
    /\ last.out = {}
    /\ ~store.files[last.arg].exists
    /\ \E n \in IDs : store.files[n].exists

\* C17: every error a store operation returns carries a code of the
\* taxonomy.
C17_EveryFailureHasKind ==
    last.err # NoErr => GetErrorCode(last.err) \in ErrorCodes

\* ------------------------------------------------------------------------
\* Properties of pkg/cerrors (SpecErrors)
\* ------------------------------------------------------------------------

\* C18: an AppError of code c wrapped any number of times is an AppError of
\* code c and of no other code, and GetErrorCode gives c; an error without an
\* AppError in it has the empty code and is an AppError of no code.
C18_WrapKeepsKind ==
    last.op \in {"New", "Wrap"} =>
        IF last.arg[1] \in ErrorCodes
        THEN /\ GetErrorCode(last.err) = last.arg[1]
             /\ \A c \in ErrorCodes : IsAppError(last.err, c) <=> (c = last.arg[1])
        ELSE /\ GetErrorCode(last.err) = ""
             /\ \A c \in ErrorCodes : ~IsAppError(last.err, c)

\* an AppError whose cause is an AppError of another code, wrapped twice
C18_Witness ==
    /\ last.op = "Wrap"
    /\ last.out = 2
    /\ Len(last.arg) = 2
    /\ last.arg[1] \in ErrorCodes
    /\ last.arg[2] \in ErrorCodes \ {last.arg[1]}
    /\ IsAppError(last.err, last.arg[1])

\* ------------------------------------------------------------------------
\* Properties of the gateway (SpecGateway)
\* ------------------------------------------------------------------------

\* the code Login answers a status other than 200 with
StatusKind(status) ==
    IF status = StatusUnauthorized THEN CodeUnauthorized
    ELSE IF status = StatusBadRequest THEN CodeInvalidInput
    ELSE IF status = StatusInternalServerError THEN CodeServiceUnavailable
    ELSE CodeInternalServer

\* C19: Login answers status 200 with a session and no error, 401 with
\* Unauthorized, 400 with InvalidInput, 500 with ServiceUnavailable, a
\* transport failure with NetworkError and any other status with
\* InternalServer, and returns no session unless the status is 200.
C19_LoginStatusMapping ==
    last.op = "Login" =>
        LET remote == last.arg.remote
        IN IF ~remote.transport
           THEN IsAppError(last.err, CodeNetworkError) /\ last.out = Nil
           ELSE IF remote.status = StatusOK
           THEN last.err = NoErr /\ last.out # Nil
           ELSE IsAppError(last.err, StatusKind(remote.status)) /\ last.out = Nil

\* C19 as amended: status 200 yields a session and no error when the body
\* decodes and the session id is generated, and otherwise an error without a
\* kind and no session; the other outcomes map as stated.
C19_LoginStatusMappingDecoded ==
    last.op = "Login" =>
        LET remote == last.arg.remote
        IN IF ~remote.transport
           THEN IsAppError(last.err, CodeNetworkError) /\ last.out = Nil
           ELSE IF remote.status # StatusOK
           THEN IsAppError(last.err, StatusKind(remote.status)) /\ last.out = Nil
           ELSE IF remote.body = Malformed \/ remote.draw = RandFail
           THEN last.err # NoErr /\ GetErrorCode(last.err) = "" /\ last.out = Nil
           ELSE /\ last.err = NoErr
                /\ last.out # Nil
                /\ last.out.id = HexEncode(remote.draw)
                /\ last.out.username = JSONString(remote.body.id)
                /\ last.out.token = JSONString(remote.body.token)
                /\ last.out.expiresAt = now + SessionDuration

\* Login answered status 500 with ServiceUnavailable
C19_Witness ==
    /\ last.op = "Login"
    /\ last.arg.remote.transport
    /\ last.arg.remote.status = StatusInternalServerError
    /\ IsAppError(last.err, CodeServiceUnavailable)
    /\ last.out = Nil

\* C20: ValidateSession of a session that is expired answers false without
\* an error and without a request; of any other session it issues one probe
\* and answers true for status 200, false without an error for any other
\* status and NetworkError when the transport fails.
C20_ValidateSessionProbe ==
    last.op = "ValidateSession" =>
        LET probe == last.arg.probe
        IN IF IsExpired(last.arg.session, now)
           THEN last.out = FALSE /\ last.err = NoErr /\ last.calls = << >>
           ELSE /\ Len(last.calls) = 1
                /\ IF ~probe.transport
                   THEN IsAppError(last.err, CodeNetworkError) /\ last.out = FALSE
                   ELSE last.err = NoErr /\ last.out = (probe.status = StatusOK)

\* the user name of the session makes a URL that url.Parse accepts
ProbeURLParses(session) == \A i \in 1..Len(session.username) : session.username[i] \notin CtlBytes

\* C20 as amended: as C20 for a session whose user name makes a URL that
\* parses; for one whose user name does not, and that is not expired,
\* ValidateSession answers false with an error without a kind and issues no
\* request.
C20_ValidateSessionProbeBuilt ==
    last.op = "ValidateSession" =>
        LET probe == last.arg.probe
        IN IF IsExpired(last.arg.session, now)
           THEN last.out = FALSE /\ last.err = NoErr /\ last.calls = << >>
           ELSE IF ~ProbeURLParses(last.arg.session)
           THEN /\ last.out = FALSE
                /\ last.err # NoErr
                /\ GetErrorCode(last.err) = ""
                /\ last.calls = << >>
           ELSE /\ Len(last.calls) = 1
                /\ last.calls[1].method = "GET"
                /\ IF ~probe.transport
                   THEN IsAppError(last.err, CodeNetworkError) /\ last.out = FALSE
                   ELSE last.err = NoErr /\ last.out = (probe.status = StatusOK)

\* the probe of a session that is not expired failed in the transport and
\* ValidateSession answered NetworkError
C20_Witness ==
    /\ last.op = "ValidateSession"
    /\ ~IsExpired(last.arg.session, now)
    /\ ~last.arg.probe.transport
    /\ Len(last.calls) = 1
    /\ IsAppError(last.err, CodeNetworkError)

\* C21: RefreshSession fails with Unauthorized when ValidateSession is false
\* and otherwise returns a new session with another id, the user name and
\* token of the input and an expiry 24 hours from now; the input is left as
\* it was.
C21_RefreshSessionRenews ==
    last.op = "RefreshSession" =>
        LET s == last.arg.session
            v == ValidateSession(s, last.arg.probe, now)
        IN /\ last.out.input = s
           /\ IF ~v.ok
              THEN IsAppError(last.err, CodeUnauthorized) /\ last.out.session = Nil
              ELSE /\ last.err = NoErr
                   /\ last.out.session # Nil
                   /\ last.out.session.id # s.id
                   /\ last.out.session.username = s.username
                   /\ last.out.session.token = s.token
                   /\ last.out.session.expiresAt = now + SessionDuration

\* C21 as amended: an error of ValidateSession is returned wrapped, with its
\* kind; a false answer without an error gives Unauthorized; a true answer
\* gives an error without a kind when the random source fails, and otherwise
\* a new session whose id is the hexadecimal text of the bytes drawn, with
\* the user name and token of the input and an expiry 24 hours from now; the
\* input is left as it was in every case.
C21_RefreshSessionRenewsValidated ==
    last.op = "RefreshSession" =>
        LET s == last.arg.session
            v == ValidateSession(s, last.arg.probe, now)
        IN /\ last.out.input = s
           /\ IF v.err # NoErr
              THEN /\ last.err # NoErr
                   /\ GetErrorCode(last.err) = GetErrorCode(v.err)
                   /\ last.out.session = Nil
              ELSE IF ~v.ok
              THEN IsAppError(last.err, CodeUnauthorized) /\ last.out.session = Nil
              ELSE IF last.arg.draw = RandFail
              THEN /\ last.err # NoErr
                   /\ GetErrorCode(last.err) = ""
                   /\ last.out.session = Nil
              ELSE /\ last.err = NoErr
                   /\ last.out.session # Nil
                   /\ last.out.session.id = HexEncode(last.arg.draw)
                   /\ last.out.session.username = s.username
                   /\ last.out.session.token = s.token
                   /\ last.out.session.expiresAt = now + SessionDuration
                   /\ last.out.session.createdAt = now
                   /\ last.out.session.lastUsed = now

\* a session that the service confirmed was renewed under another id
C21_Witness ==
    /\ last.op = "RefreshSession"
    /\ last.err = NoErr
    /\ last.arg.probe.transport
    /\ last.arg.probe.status = StatusOK
    /\ ~IsExpired(last.arg.session, now)
    /\ last.out.session # Nil
    /\ last.out.session.id # last.arg.session.id
    /\ last.out.session.token = last.arg.session.token
    /\ last.out.input = last.arg.session

\* C22: whatever status the service answers the request of Logout with,
\* Logout returns no error and leaves the session it was handed and the
\* store as they were.
C22_LogoutBestEffort ==
    [][(last'.op = "Logout" /\ last'.arg.probe.transport)
       => /\ last'.err = NoErr
          /\ last'.out = last'.arg.session
          /\ Len(last'.calls) = 1
          /\ last'.calls[1].method = "DELETE"
          /\ store' = store]_vars

\* the service answered the request of Logout with status 500 while the
\* store named a current session, and Logout returned no error
C22_Witness ==
    /\ last.op = "Logout"
    /\ last.arg.probe.transport
    /\ last.arg.probe.status = StatusInternalServerError
    /\ last.err = NoErr
    /\ store.cur.exists
    /\ store.cur.content = last.arg.session.id

\* ------------------------------------------------------------------------
\* Properties of the submit use case (SpecSubmit)
\* ------------------------------------------------------------------------

\* Execute of SubmitUseCase came to its GetCurrent, which no fault of the
\* operating system disturbed
SubmitReachedCurrent ==
    /\ last.op = "Submit"
    /\ last.arg.problem = "ok"
    /\ last.arg.read = "ok"
    /\ last.arg.current = "none"

\* the store has no pointer, or a pointer to an id without a record, or a
\* current session that is expired
NoValidCurrent ==
    \/ ~store.cur.exists
    \/ /\ store.cur.exists
       /\ NewSessionID(store.cur.content).err = NoErr
       /\ ~store.files[NewSessionID(store.cur.content).id].exists
    \/ /\ GetCurrent(store, "none", now).err = NoErr
       /\ IsExpired(GetCurrent(store, "none", now).session, now)

\* C23: Execute of SubmitUseCase fails with Unauthorized when the pointer is
\* absent, when the record it names is missing and when the current session
\* is expired.
C23_NoCurrentIsUnauthorized ==
    (SubmitReachedCurrent /\ NoValidCurrent) => IsAppError(last.err, CodeUnauthorized)

\* C24: Execute of SubmitUseCase calls Submit only after GetCurrent returned
\* a session that is valid: valid id, user name and token not empty, not
\* expired.
C24_SubmitOnlyWithValidSession ==
    (last.op = "Submit" /\ \E i \in 1..Len(last.calls) : last.calls[i].call = "Submit")
        => /\ last.out.session # Nil
           /\ SessionIsValid(last.out.session, now)

\* ------------------------------------------------------------------------
\* Properties of the SessionID value object (SpecSessionID)
\* ------------------------------------------------------------------------

\* a string of 32 to 128 hexadecimal characters
IsHexHandle(value) ==
    /\ Len(value) \in 32..128
    /\ \A i \in 1..Len(value) :
          value[i] \in {"0", "1", "2", "3", "4", "5", "6", "7", "8", "9",
                        "a", "b", "c", "d", "e", "f", "A", "B", "C", "D", "E", "F"}

\* C26: NewSessionID succeeds exactly for the strings of 32 to 128
\* hexadecimal characters, and then gives an id whose String() is the
\* normalized value; for every other string it fails with InvalidInput.
C26_ConstructExactlyHex ==
    last.op = "NewSessionID" =>
        IF IsHexHandle(last.arg)
        THEN last.err = NoErr /\ last.out = TrimSpace(last.arg)
        ELSE IsAppError(last.err, CodeInvalidInput)

\* C26 as amended: NewSessionID succeeds exactly for the strings that,
\* with the white space around them trimmed, are 32 to 128 hexadecimal
\* characters, and then gives the trimmed string as the id, which is valid;
\* for every other string it fails with InvalidInput and gives the zero id.
C26_ConstructExactlyTrimmedHex ==
    last.op = "NewSessionID" =>
        IF IsHexHandle(TrimSpace(last.arg))
        THEN /\ last.err = NoErr
             /\ last.out = TrimSpace(last.arg)
             /\ SessionIDIsValid(last.out)
        ELSE /\ IsAppError(last.err, CodeInvalidInput)
             /\ last.out = ZeroID

\* NewSessionID accepted a string with white space around 32 hexadecimal
\* characters and gave the characters without the white space
C26_Witness ==
    /\ last.op = "NewSessionID"
    /\ last.err = NoErr
    /\ Len(last.out) = 32
    /\ Len(last.arg) > 32
    /\ IsHexHandle(last.out)
    /\ ~IsHexHandle(last.arg)

\* ------------------------------------------------------------------------
\* Properties of the Session entity (SpecSession)
\* ------------------------------------------------------------------------

\* C27: IsValid() is true iff the id is valid, the user name and the token
\* are not empty and now <= expiresAt; IsExpired() is true iff now is after
\* expiresAt.
C27_ValidIffStructuralAndNotExpired ==
    /\ last.op = "IsValid" =>
          (last.out.result <=> /\ IsHexHandle(last.out.session.id)
                               /\ last.out.session.username # << >>
                               /\ last.out.session.token # << >>
                               /\ now <= last.out.session.expiresAt)
    /\ last.op = "IsExpired" => (last.out.result <=> now > last.out.session.expiresAt)

\* IsValid() answered true at the instant of expiry
C27_Witness ==
    /\ last.op = "IsValid"
    /\ last.out.result
    /\ now = last.out.session.expiresAt

\* C28: after Refresh(d), whatever d, IsExpired() is false.
C28_RefreshedNeverExpired ==
    last.op = "Refresh" => ~IsExpired(last.out.session, now)

\* C28 as amended: Refresh(d) sets the expiry to now + d and the last use to
\* now and leaves the other fields; for d >= 0 IsExpired() is false from the
\* instant of the call until d has passed, and for d < 0 it is true from the
\* instant of the call on.
C28_RefreshedNotExpiredWithin ==
    last.op = "Refresh" =>
        /\ last.out.session.expiresAt = now + last.arg
        /\ last.out.session.lastUsed = now
        /\ last.out.session = [last.out.before EXCEPT !.expiresAt = now + last.arg,
                                                      !.lastUsed = now]
        /\ IF last.arg >= 0
           THEN \A t \in {now, now + 1, now + last.arg} :
                   t <= now + last.arg => ~IsExpired(last.out.session, t)
           ELSE IsExpired(last.out.session, now)

\* a session that was expired is not expired after Refresh(d) with d > 0
C28_Witness ==
    /\ last.op = "Refresh"
    /\ last.arg > 0
    /\ IsExpired(last.out.before, now)
    /\ ~IsExpired(last.out.session, now)

C30_MapRoundTrip ==
    last.op = "FromMap" =>
        IF ~IsHexHandle(TrimSpace(last.arg.id))
        THEN IsAppError(last.err, CodeInvalidInput)
        ELSE last.arg = ToMap(last.out.before) =>
                /\ ~last.out.result
                /\ last.err = NoErr
                /\ last.out.session # Nil
                /\ last.out.session.id = last.out.before.id
                /\ last.out.session.username = last.out.before.username
                /\ last.out.session.token = last.out.before.token
                /\ Unix(last.out.session.expiresAt) = Unix(last.out.before.expiresAt)
                /\ Unix(last.out.session.createdAt) = Unix(last.out.before.createdAt)
                /\ Unix(last.out.session.lastUsed) = Unix(last.out.before.lastUsed)

\* ------------------------------------------------------------------------
\* Logging
\* ------------------------------------------------------------------------

\* the text hay holds the text needle, character by character
Contains(hay, needle) ==
    /\ needle # EmptyStr
    /\ \E i \in 1..(Len(hay) - Len(needle) + 1) :
          hay[i] = needle[1] /\ SubSeq(hay, i, i + Len(needle) - 1) = needle

\* the values of the records of the last login command that pass the handler
LoggedValues ==
    LET records == Handle(last.out.records, LoggerLevel)
    IN {records[i].attrs[j].value : <<i, j>> \in
          {p \in (1..Len(records)) \X (1..2) : p[2] <= Len(records[p[1]].attrs)}}

\* C25: no record written by the login command, by the Save, SetCurrent and
\* Login it calls included, holds the whole session identifier, the token
\* or the password: of the identifier a logged value shows at most the
\* first four and the last four characters.
C25_NoSecretInLog ==
    last.op = "ExecuteLog" =>
        \A value \in LoggedValues :
            /\ ~Contains(value, last.arg.password)
            /\ last.out.session # Nil =>
                  /\ ~Contains(value, last.out.session.id)
                  /\ ~Contains(value, last.out.session.token)

\* C38: UpdateToken never leaves a session without a token: called on a
\* session whose token is not empty, it gives a session whose token is not
\* empty.
C38_UpdateTokenKeepsToken ==
    last.op = "UpdateToken" /\ last.out.before.token # EmptyStr =>
        last.out.session.token # EmptyStr

\* C35: after a successful Save(S), at any later instant, GetByID(S.id)
\* returns a session whose expiresAt, createdAt and lastUsed are those of S
\* truncated to whole seconds.
C35_SaveKeepsTimestamps ==
    (last.op = "Save" /\ last.err = NoErr) =>
        LET r == GetByID(store, last.arg.id, "none", now)
        IN r.err = NoErr =>
              /\ r.session.expiresAt = TimeUnix(Unix(last.arg.expiresAt))
              /\ r.session.createdAt = TimeUnix(Unix(last.arg.createdAt))
              /\ r.session.lastUsed = TimeUnix(Unix(last.arg.lastUsed))

\* ------------------------------------------------------------------------
\* Properties of List (SpecList)
\* ------------------------------------------------------------------------

\* the entry n of st names a session id, blanks around it aside
EntryParses(n) == n # EmptyStr /\ IsHexHandle(TrimSpace(n))

\* the record st holds under the session id of entry n opens and decodes
EntryLoads(st, n, unreadable) ==
    LET id == TrimSpace(n)
    IN /\ id \in DOMAIN st.files
       /\ st.files[id].exists
       /\ id \notin unreadable
       /\ st.files[id].content # Partial
       /\ st.files[id].content.id # EmptyStr
       /\ IsHexHandle(TrimSpace(st.files[id].content.id))

\* session s is the session of the record st holds under the id of entry n
IsSessionOfEntry(s, st, n) ==
    LET data == st.files[TrimSpace(n)].content
    IN /\ s.id = TrimSpace(data.id)
       /\ s.username = data.username
       /\ s.token = data.token
       /\ s.expiresAt = TimeUnix(data.expires_at)
       /\ s.lastUsed = TimeUnix(data.last_used)

C34_LoginSessionIsValid ==
    last.op = "Execute" /\ last.out.session # Nil => SessionIsValid(last.out.session, now)

\* ------------------------------------------------------------------------
\* Properties of RefreshSession beside the store (SpecRefresh)
\* ------------------------------------------------------------------------

\* C36: once RefreshSession(S) has returned a new session, GetByID(S.id)
\* does not return a session.
C36_OldIdUnresolvable ==
    last.op = "RefreshSession" /\ last.err = NoErr =>
        GetByID(store, last.arg.session.id, "none", now).err # NoErr

\* C36 as amended: RefreshSession leaves the store as it is: GetByID(S.id)
\* answers after the call what it answered before it, the session stored
\* under S.id when there is one.
C36_RefreshLeavesOldId ==
    [][last'.op = "RefreshSession" =>
          /\ store'.files = store.files
          /\ GetByID(store', last'.arg.session.id, "none", now')
                = GetByID(store, last'.arg.session.id, "none", now)]_vars

\* a session was renewed under another id and GetByID of its old id returns
\* the session stored under it
C36_Witness ==
    /\ last.op = "RefreshSession"
    /\ last.err = NoErr
    /\ last.out.session.id # last.arg.session.id
    /\ LET r == GetByID(store, last.arg.session.id, "none", now)
       IN /\ r.err = NoErr
          /\ r.session.id = last.arg.session.id
          /\ r.session.username = last.arg.session.username

\* ------------------------------------------------------------------------
\* Properties of two processes on one store (SpecRace)
\* ------------------------------------------------------------------------

\* the pointer names an id under which there is no record
Dangling == store.cur.exists /\ store.cur.content \in IDs /\ ~store.files[store.cur.content].exists

\* the pointer is as the processes found it, or a login wrote it
PointerSavedFirst ==
    IF last.out.ptrWriter = 0
    THEN last.out.start.cur.exists => last.out.start.files[last.out.start.cur.content].exists
    ELSE last.out.procs[last.out.ptrWriter].prog = "Execute"

\* C31: a login saves its session before it sets the pointer, so the
\* pointer it wrote (or one that named a record from the start) names an
\* id without a record only once the other process has deleted that
\* record; and there is an interleaving in which this happens.
C31_DanglingOnlyByDelete ==
    Dangling /\ PointerSavedFirst =>
        \E q \in RaceProcs :
           /\ last.out.procs[q].prog = "Delete"
           /\ last.out.procs[q].pc = "done"
           /\ last.out.procs[q].id = store.cur.content

\* on a store that was empty a login has returned success, its id is the
\* pointer and the other process has deleted its record
C31_Witness ==
    /\ Dangling
    /\ last.out.start = EmptyStore
    /\ \E p \in RaceProcs :
          /\ last.out.ptrWriter = p
          /\ last.out.procs[p].prog = "Execute"
          /\ last.out.procs[p].pc = "done"
          /\ last.out.procs[p].err = NoErr
          /\ last.out.procs[p].id = store.cur.content
          /\ \E q \in RaceProcs \ {p} :
                last.out.procs[q].prog = "Delete" /\ last.out.procs[q].pc = "done"

\* both processes ran a login and both logins returned success
BothLoggedIn ==
    \A p \in RaceProcs :
       /\ last.out.procs[p].prog = "Execute"
       /\ last.out.procs[p].pc = "done"
       /\ last.out.procs[p].err = NoErr

\* C32: when two logins have run concurrently on one store and both have
\* returned success, the record of each session is in the store, the
\* pointer holds the id of the login whose SetCurrent wrote last, and of
\* that one only when the ids differ, and GetCurrent returns its session.
C32_LastSetCurrentWins ==
    BothLoggedIn =>
        /\ \A p \in RaceProcs :
              /\ store.files[last.out.procs[p].id].exists
              /\ store.files[last.out.procs[p].id].content
                    \in {EncodeSessionData(last.out.procs[q].session) : q \in RaceProcs}
        /\ last.out.ptrWriter \in RaceProcs
        /\ store.cur.content = last.out.procs[last.out.ptrWriter].id
        /\ \A p \in RaceProcs \ {last.out.ptrWriter} :
              last.out.procs[p].id # last.out.procs[last.out.ptrWriter].id
                 => store.cur.content # last.out.procs[p].id
        /\ LET r == GetCurrent(store, "none", now)
           IN r.err = NoErr /\ r.session.id = last.out.procs[last.out.ptrWriter].id

\* two logins with different ids returned success and the pointer holds the
\* id of the second process, not that of the first
C32_Witness ==
    /\ BothLoggedIn
    /\ last.out.procs[1].id # last.out.procs[2].id
    /\ last.out.ptrWriter = 2
    /\ store.cur.content = last.out.procs[2].id
    /\ store.files[last.out.procs[1].id].exists

\* C33: a GetByID that ran while the other process saved a session over
\* the record of the same id returns the session stored before the Save or
\* the one the Save stores, and a GetCurrent that ran while the other
\* process set the pointer returns the session that was current before or
\* the one made current; neither returns an error.
C33_WritesAreAtomic ==
    \A p \in RaceProcs : \A q \in RaceProcs \ {p} :
       LET reader == last.out.procs[p]
           writer == last.out.procs[q]
           start == last.out.start
       IN /\ ( /\ reader.prog = "GetByID"
               /\ reader.pc = "done"
               /\ writer.prog = "Save"
               /\ writer.id = reader.id
               /\ start.files[reader.id].exists )
             => /\ reader.err = NoErr
                /\ reader.result \in {dataToSession(start.files[reader.id].content, now).session,
                                      dataToSession(EncodeSessionData(writer.session), now).session}
          /\ ( /\ reader.prog = "GetCurrent"
               /\ reader.pc = "done"
               /\ writer.prog = "SetCurrent"
               /\ start.cur.exists )
             => /\ reader.err = NoErr
                /\ reader.result.id \in {start.cur.content, writer.id}
====
